---- MODULE Spec2Model ----
(***************************************************************************)
(* A model of the cogo coroutine runtime: the parked bitmap and wake_one,  *)
(* the once-initialised scheduler singleton, the run queues with work      *)
(* stealing and the timer thread, the I/O subscribe / cancel path, the     *)
(* panic hook, spawn and join, coroutine-local storage, and the two        *)
(* shared maps of std/sync.  The definitions are translated from           *)
(* src/src/scheduler.rs, src/src/local.rs, src/src/std/sync/ and the       *)
(* subscribe implementations under src/src/io/sys/windows/net/.  What the  *)
(* sources call but do not hold (AtomicOption, run_coroutine, the event    *)
(* loop, the cancel data, the join slot, the locks) follows the            *)
(* specification's description of it.                                      *)
(***************************************************************************)
EXTENDS Integers, Sequences, FiniteSets, TLC

VARIABLES
    wk,             \* ParkStatus under test by itself: workers, bitmap, signals
    call,           \* one call of schedule: thread, coroutine, the queues before
    once,           \* get_scheduler: SCHED, ONCE, the callers, what init did
    io,             \* per coroutine blocked on I/O: subscribe, request, timer, cancel
    jn,             \* spawn and join: the children, their join slots, the joiner
    hook,           \* the process panic hook and the panics it has handled
    cls,            \* coroutine-local storage: the maps, the accesses in flight
    bt,             \* a shared SyncBtreeMap and the coroutines that use it
    sm,             \* a shared SyncMap and the coroutines that use it
    sn,             \* Scheduler::new on its own: the stealer lists being built
    tm,             \* the timer thread inside timer_event_handler, step by step
    ps,             \* a shared map whose lock a panicked holder may have poisoned
    sg,             \* steal_global on its own: the lock word, the calls in flight
    global_queue,   \* Scheduler.global_queue: the injector
    local_queues,   \* Scheduler.local_queues: one FIFO deque per worker
    deficit,        \* per deque: front - back when a stale store left back behind
    parked,         \* Scheduler.workers.parked: the parked bitmap
    wakeups,        \* selector wakeup signals pending, per worker
    pc,             \* where each worker thread is in its loop
    cur,            \* the coroutine each worker holds (popped, stolen or running)
    lock,           \* GLOBABLE_LOCK of steal_global
    cells,          \* coroutines held by a wakeup cell that a timer targets
    sleeps,         \* Scheduler.sleeps: thread id -> flag
    worker_ids,     \* Scheduler.worker_ids: thread id -> worker index
    prod,           \* the non-worker thread that spawns: its position in schedule
    tpush,          \* the timer thread's push onto a local deque, while in flight
    fate            \* per coroutine: unborn, injected, ran, done, dropped,
                    \* lost, lost_injected (lost before it ever ran)

schedVars == << global_queue, local_queues, deficit, parked, wakeups, pc, cur,
                lock, cells, sleeps, worker_ids, prod, tpush, fate >>

\* the variables of the specifications that look at one operation on its own
libVars == << jn, hook, cls, bt, sm, sn, tm, ps, sg >>

aux == << wk, call, once, io, libVars >>

vars == << aux, schedVars >>

(***************************************************************************)
(* 64-bit words.  A u64 is the set of the indices of its set bits.         *)
(***************************************************************************)
U64Bits == 64

AllBits == 0 .. (U64Bits - 1)

Min(S) == CHOOSE x \in S : \A y \in S : x <= y

RECURSIVE Pow2(_)
Pow2(n) == IF n = 0 THEN 1 ELSE 2 * Pow2(n - 1)

\* the set bits of a small number (a mask such as workers + first_thread)
BitsOf(n) == { i \in 0 .. 7 : (n \div Pow2(i)) % 2 = 1 }

\* parked.wrapping_sub(1): borrow through the low zero bits
WrappingSub1(b) ==
    IF b = {} THEN AllBits
    ELSE (b \ { Min(b) }) \cup (0 .. (Min(b) - 1))

\* !x on a u64
Not64(b) == AllBits \ b

\* u64::trailing_zeros: 64 for the zero word
TrailingZeros(b) == IF b = {} THEN U64Bits ELSE Min(b)

(***************************************************************************)
(* ParkStatus::wake_one                                                    *)
(***************************************************************************)
NoWake == << >>

\* the lowest set bit cleared in place of isolated: parked & (parked - 1)
FirstThreadCleared(loaded) ==
    TrailingZeros(loaded \cap WrappingSub1(loaded))

\* the value loaded from the bitmap decides which worker is signalled
FirstThread(loaded) ==
    LET rms == loaded \cap Not64(WrappingSub1(loaded))
    IN  TrailingZeros(rms)

\* a guard that lets the index equal to the worker count through
WakeGuardInclusive(first_thread, workers) == first_thread <= workers

\* if first_thread < self.workers
WakeGuard(first_thread, workers) == first_thread < workers

\* let mask = self.workers + first_thread
WakeMask(first_thread, workers) == BitsOf(workers + first_thread)

\* wake_one run without interruption on bitmap `bits`:
\* the bitmap afterwards and the selector wakeups sent
wake_one(bits, workers) ==
    LET first_thread == FirstThread(bits)
    IN  IF WakeGuard(first_thread, workers)
        THEN [ parked |-> bits \cap Not64(WakeMask(first_thread, workers)),
               sent   |-> << first_thread >> ]
        ELSE [ parked |-> bits, sent |-> NoWake ]

(***************************************************************************)
(* The scheduler: Scheduler::new                                           *)
(***************************************************************************)
NumWorkers == 2
MaxCo == 3
MaxRegress == 1

Workers == 0 .. (NumWorkers - 1)

Cos == 1 .. MaxCo

NoCo == 0

\* thread ids: the workers, the timer thread, a thread that is no worker
Tid(id) == << "worker", id >>

TimerThread == << "timer", 0 >>

ExtThread == << "thread", 0 >>

\* WORKER_ID: thread local, !1 on every thread that is no worker
\* (all bits set but the lowest: -2 read as a signed word)
NotWorker == -2

WORKER_ID(t) == IF t[1] = "worker" THEN t[2] ELSE NotWorker

RECURSIVE Ascending(_)
Ascending(S) ==
    IF S = {} THEN << >> ELSE << Min(S) >> \o Ascending(S \ { Min(S) })

\* slice::rotate_left(mid)
rotate_left(s, mid) == SubSeq(s, mid + 1, Len(s)) \o SubSeq(s, 1, mid)

\* stealers[id]: every other worker, ascending, rotated left by id
stealers(id) == rotate_left(Ascending(Workers \ { id }), id)

Count(s, c) == Cardinality({ i \in DOMAIN s : s[i] = c })

SeqToSet(s) == { s[i] : i \in DOMAIN s }

NoPush == [ w |-> NotWorker, co |-> NoCo, rel |-> 0 ]

EmptyMap == [ t \in {} |-> FALSE ]

\* SyncHashMap::insert
Insert(m, k, v) == [ t \in DOMAIN m \cup { k } |-> IF t = k THEN v ELSE m[t] ]

\* the variables of the other specifications, where they play no part
WakeOff ==
    wk = [ workers |-> NumWorkers, before |-> {}, parked |-> {},
           sent |-> NoWake, calls |-> 0 ]

NoCall == [ thread |-> ExtThread, co |-> NoCo, done |-> FALSE ]

CallOff == call = NoCall

OnceOff == once = << >>

IoOff == io = << >>

JoinOff == jn = << >>

HookOff == hook = << >>

ClsOff == cls = << >>

BtreeOff == bt = << >>

MapOff == sm = << >>

StealersOff == sn = << >>

TimerOff == tm = << >>

PoisonOff == ps = << >>

StealGlobalOff == sg = << >>

LibOff ==
    /\ JoinOff /\ HookOff /\ ClsOff /\ BtreeOff /\ MapOff /\ StealersOff
    /\ TimerOff
    /\ PoisonOff
    /\ StealGlobalOff

\* the state of a scheduler right after Scheduler::new, no thread started
SchedOff ==
    /\ global_queue = << >>
    /\ local_queues = [ w \in Workers |-> << >> ]
    /\ deficit = [ w \in Workers |-> 0 ]
    /\ parked = {}
    /\ wakeups = [ w \in Workers |-> FALSE ]
    /\ pc = [ w \in Workers |-> "boot" ]
    /\ cur = [ w \in Workers |-> NoCo ]
    /\ lock = 0
    /\ cells = {}
    /\ sleeps = EmptyMap
    /\ worker_ids = EmptyMap
    /\ prod = [ pc |-> "idle", first_thread |-> 0 ]
    /\ tpush = NoPush
    /\ fate = [ c \in Cos |-> "unborn" ]

(***************************************************************************)
(* crossbeam deque: Worker (FIFO), Stealer, Injector.  A deque is the      *)
(* sequence of its visible tasks, front first.                             *)
(***************************************************************************)
\* tasks the owner's push makes invisible: back was left behind front
Swallowed(w, items) ==
    IF deficit[w] < Len(items) THEN deficit[w] ELSE Len(items)

\* Worker::push by the owner thread, for each of `items` in turn
OwnerPush(w, items) ==
    [ q    |-> local_queues[w] \o SubSeq(items, Swallowed(w, items) + 1, Len(items)),
      d    |-> deficit[w] - Swallowed(w, items),
      lost |-> SeqToSet(SubSeq(items, 1, Swallowed(w, items))) ]

\* a steal or pop that took n tasks from queue q without removing them
PoppedKeepsTasks(q, n) == q

\* queue q after a pop or a steal took n tasks from its front
Popped(q, n) == SubSeq(q, n + 1, Len(q))

\* removing n tasks from the front of deque v moves front past the index the
\* timer thread read, when its push onto v is in flight
RelAfterTake(v, n) ==
    IF tpush.w = v THEN [ tpush EXCEPT !.rel = tpush.rel - n ] ELSE tpush

CanTake(v, n) == tpush.w = v => tpush.rel - n >= 0 - MaxRegress

\* a coroutine that was never run keeps that in its fate when it is lost
LostFate(c) == IF fate[c] = "injected" THEN "lost_injected" ELSE "lost"

MarkLost(f, S) == [ c \in Cos |-> IF c \in S THEN LostFate(c) ELSE f[c] ]

(***************************************************************************)
(* Scheduler::schedule and Scheduler::schedule_global                      *)
(***************************************************************************)
\* schedule_global(co): global_queue.push(co), and wake_one is to follow
schedule_global(c) ==
    [ global |-> Append(global_queue, c), local |-> local_queues,
      d |-> deficit, lost |-> {}, wake |-> TRUE ]

\* a schedule that takes the injector path on every thread
schedule_always_global(t, c) == schedule_global(c)

\* schedule(co) on thread t: the queues afterwards, and whether wake_one follows
schedule(t, c) ==
    LET id == WORKER_ID(t)
    IN  IF id = NotWorker
        THEN schedule_global(c)
        ELSE LET r == OwnerPush(id, << c >>)
             IN  [ global |-> global_queue,
                   local  |-> [ local_queues EXCEPT ![id] = r.q ],
                   d      |-> [ deficit EXCEPT ![id] = r.d ],
                   lost   |-> r.lost,
                   wake   |-> FALSE ]

\* the call of schedule(c) by thread t, written to the queues
Scheduled(t, c, f) ==
    LET r == schedule(t, c)
    IN  /\ global_queue' = r.global
        /\ local_queues' = r.local
        /\ deficit' = r.d
        /\ fate' = MarkLost(f, r.lost)

\* wake_one run to its end by the thread that called schedule_global
Woken(sent) == [ w \in Workers |-> wakeups[w] \/ w \in SeqToSet(sent) ]

\* schedule(c) on thread t together with the wake_one that schedule_global makes
ScheduleAndWake(t, c, f) ==
    LET r == schedule(t, c)
        k == wake_one(parked, NumWorkers)
    IN  /\ Scheduled(t, c, f)
        /\ parked' = IF r.wake THEN k.parked ELSE parked
        /\ wakeups' = IF r.wake THEN Woken(k.sent) ELSE wakeups

(***************************************************************************)
(* init_scheduler: what each worker thread does first                      *)
(***************************************************************************)
worker_register(w) ==
    /\ pc[w] = "boot"
    /\ sleeps' = Insert(sleeps, Tid(w), FALSE)
    /\ worker_ids' = Insert(worker_ids, Tid(w), w)
    /\ pc' = [ pc EXCEPT ![w] = "pick" ]
    /\ UNCHANGED << aux, global_queue, local_queues, deficit, parked, wakeups,
                    cur, lock, cells, prod, tpush, fate >>

(***************************************************************************)
(* Scheduler::run_queued_tasks, steal_local, steal_global                  *)
(***************************************************************************)
\* local.pop() returned a task
local_pop(w) ==
    /\ pc[w] = "pick"
    /\ local_queues[w] # << >>
    /\ CanTake(w, 1)
    /\ cur' = [ cur EXCEPT ![w] = Head(local_queues[w]) ]
    /\ local_queues' = [ local_queues EXCEPT ![w] = Popped(@, 1) ]
    /\ tpush' = RelAfterTake(w, 1)
    /\ pc' = [ pc EXCEPT ![w] = "run" ]
    /\ UNCHANGED << aux, global_queue, deficit, parked, wakeups, lock, cells,
                    sleeps, worker_ids, prod, fate >>

\* if parked_threads & (self.workers_len + s.0) as u64 != 0 { return None; }
PeerSkipped(parked_threads, p) == parked_threads \cap BitsOf(NumWorkers + p) # {}

\* a steal phase that comes back with nothing whatever the peers hold
VictimNone(w, parked_threads) == NotWorker

\* find_map: the first peer in stealers order that is not skipped and whose
\* steal does not come back Empty
Victim(w, parked_threads) ==
    LET order == stealers(w)
        hits  == { i \in DOMAIN order :
                     /\ ~ PeerSkipped(parked_threads, order[i])
                     /\ local_queues[order[i]] # << >> }
    IN  IF hits = {} THEN NotWorker ELSE order[Min(hits)]

\* local.pop() returned None: steal_local from the peers, in order
steal_peers(w) ==
    /\ pc[w] = "pick"
    /\ local_queues[w] = << >>
    /\ LET v == Victim(w, parked)
       IN  IF v = NotWorker
           THEN /\ pc' = [ pc EXCEPT ![w] = "global" ]
                /\ UNCHANGED << local_queues, deficit, cur, tpush, fate >>
           ELSE \E k \in 0 .. (Len(local_queues[v]) - 1) :
                  LET r == OwnerPush(w, SubSeq(local_queues[v], 2, k + 1))
                  IN  /\ CanTake(v, k + 1)
                      /\ cur' = [ cur EXCEPT ![w] = Head(local_queues[v]) ]
                      /\ local_queues' =
                            [ local_queues EXCEPT
                                ![v] = Popped(@, k + 1), ![w] = r.q ]
                      /\ deficit' = [ deficit EXCEPT ![w] = r.d ]
                      /\ fate' = MarkLost(fate, r.lost)
                      /\ tpush' = RelAfterTake(v, k + 1)
                      /\ pc' = [ pc EXCEPT ![w] = "run" ]
    /\ UNCHANGED << aux, global_queue, parked, wakeups, lock, cells, sleeps,
                    worker_ids, prod >>

\* if self.global_queue.is_empty() { None } else { steal_global(..) }
global_is_empty(w) ==
    /\ pc[w] = "global"
    /\ pc' = [ pc EXCEPT ![w] = IF global_queue = << >> THEN "recheck" ELSE "cas" ]
    /\ UNCHANGED << aux, global_queue, local_queues, deficit, parked, wakeups,
                    cur, lock, cells, sleeps, worker_ids, prod, tpush, fate >>

\* the lock word stored without looking at what it held
steal_global_store(w) ==
    /\ pc[w] = "cas"
    /\ lock' = 1
    /\ pc' = [ pc EXCEPT ![w] = "locked" ]
    /\ UNCHANGED << aux, global_queue, local_queues, deficit, parked, wakeups,
                    cur, cells, sleeps, worker_ids, prod, tpush, fate >>

\* GLOBABLE_LOCK.compare_exchange(0, 1): on failure steal_global returns None
steal_global_cas(w) ==
    /\ pc[w] = "cas"
    /\ IF lock = 0
       THEN lock' = 1 /\ pc' = [ pc EXCEPT ![w] = "locked" ]
       ELSE lock' = lock /\ pc' = [ pc EXCEPT ![w] = "recheck" ]
    /\ UNCHANGED << aux, global_queue, local_queues, deficit, parked, wakeups,
                    cur, cells, sleeps, worker_ids, prod, tpush, fate >>

\* global.steal_batch_and_pop(local): Success(t) or Empty
steal_global_steal(w) ==
    /\ pc[w] = "locked"
    /\ IF global_queue = << >>
       THEN UNCHANGED << global_queue, local_queues, deficit, cur, fate >>
       ELSE \E k \in 0 .. (Len(global_queue) - 1) :
              LET r == OwnerPush(w, SubSeq(global_queue, 2, k + 1))
              IN  /\ cur' = [ cur EXCEPT ![w] = Head(global_queue) ]
                  /\ global_queue' = Popped(global_queue, k + 1)
                  /\ local_queues' = [ local_queues EXCEPT ![w] = r.q ]
                  /\ deficit' = [ deficit EXCEPT ![w] = r.d ]
                  /\ fate' = MarkLost(fate, r.lost)
    /\ pc' = [ pc EXCEPT ![w] = "unlock" ]
    /\ UNCHANGED << aux, parked, wakeups, lock, cells, sleeps, worker_ids, prod,
                    tpush >>

\* GLOBABLE_LOCK.store(0); ret
steal_global_unlock(w) ==
    /\ pc[w] = "unlock"
    /\ lock' = 0
    /\ pc' = [ pc EXCEPT ![w] = IF cur[w] # NoCo THEN "run" ELSE "recheck" ]
    /\ UNCHANGED << aux, global_queue, local_queues, deficit, parked, wakeups,
                    cur, cells, sleeps, worker_ids, prod, tpush, fate >>

\* nothing was picked: break, without a look at the injector
recheck_break(w) ==
    /\ pc[w] = "recheck"
    /\ pc' = [ pc EXCEPT ![w] = "idle" ]
    /\ UNCHANGED << aux, global_queue, local_queues, deficit, parked, wakeups,
                    cur, lock, cells, sleeps, worker_ids, prod, tpush, fate >>

\* nothing was picked: if self.global_queue.is_empty() { break; }
recheck(w) ==
    /\ pc[w] = "recheck"
    /\ pc' = [ pc EXCEPT ![w] = IF global_queue = << >> THEN "idle" ELSE "pick" ]
    /\ UNCHANGED << aux, global_queue, local_queues, deficit, parked, wakeups,
                    cur, lock, cells, sleeps, worker_ids, prod, tpush, fate >>

(***************************************************************************)
(* run_coroutine(co): the coroutine runs on the worker until it returns,   *)
(* yields or blocks on a timer.  The coroutine bodies drawn suspend at     *)
(* most once: a coroutine that ran before returns when it runs again.      *)
(***************************************************************************)
co_finish(w) ==
    /\ pc[w] = "run"
    /\ fate' = [ fate EXCEPT ![cur[w]] = "done" ]
    /\ cur' = [ cur EXCEPT ![w] = NoCo ]
    /\ pc' = [ pc EXCEPT ![w] = "pick" ]
    /\ UNCHANGED << aux, global_queue, local_queues, deficit, parked, wakeups,
                    lock, cells, sleeps, worker_ids, prod, tpush >>

\* yield_now: the coroutine is handed to schedule on the worker's thread
co_yield(w) ==
    /\ pc[w] = "run"
    /\ fate[cur[w]] # "ran"
    /\ Scheduled(Tid(w), cur[w], [ fate EXCEPT ![cur[w]] = "ran" ])
    /\ cur' = [ cur EXCEPT ![w] = NoCo ]
    /\ pc' = [ pc EXCEPT ![w] = "pick" ]
    /\ UNCHANGED << aux, parked, wakeups, lock, cells, sleeps, worker_ids, prod,
                    tpush >>

\* sleep or a timed wait: the coroutine is put in a wakeup cell and add_timer
\* arms a timer on the cell; the worker writes its flag in the sleeps map
co_sleep(w, tracked) ==
    /\ pc[w] = "run"
    /\ fate[cur[w]] # "ran"
    /\ cells' = cells \cup { cur[w] }
    /\ sleeps' = [ sleeps EXCEPT ![Tid(w)] = tracked ]
    /\ fate' = [ fate EXCEPT ![cur[w]] = "ran" ]
    /\ cur' = [ cur EXCEPT ![w] = NoCo ]
    /\ pc' = [ pc EXCEPT ![w] = "pick" ]
    /\ UNCHANGED << aux, global_queue, local_queues, deficit, parked, wakeups,
                    lock, worker_ids, prod, tpush >>

(***************************************************************************)
(* The event loop of a worker around run_queued_tasks: park and wake       *)
(***************************************************************************)
\* a newly idle worker sets its bit, then blocks in its selector
park(w) ==
    /\ pc[w] = "idle"
    /\ parked' = parked \cup { w }
    /\ pc' = [ pc EXCEPT ![w] = "parked" ]
    /\ UNCHANGED << aux, global_queue, local_queues, deficit, wakeups, cur, lock,
                    cells, sleeps, worker_ids, prod, tpush, fate >>

\* the selector returns on a wakeup signal
wake_signal(w) ==
    /\ pc[w] = "parked"
    /\ wakeups[w]
    /\ wakeups' = [ wakeups EXCEPT ![w] = FALSE ]
    /\ parked' = parked \ { w }
    /\ pc' = [ pc EXCEPT ![w] = "pick" ]
    /\ UNCHANGED << aux, global_queue, local_queues, deficit, cur, lock, cells,
                    sleeps, worker_ids, prod, tpush, fate >>

\* the selector returns by its timeout: a parked worker wakes every second
self_wake(w) ==
    /\ pc[w] = "parked"
    /\ parked' = parked \ { w }
    /\ pc' = [ pc EXCEPT ![w] = "pick" ]
    /\ UNCHANGED << aux, global_queue, local_queues, deficit, wakeups, cur, lock,
                    cells, sleeps, worker_ids, prod, tpush, fate >>

(***************************************************************************)
(* A thread that is no worker spawns: schedule, schedule_global, wake_one  *)
(***************************************************************************)
\* coroutines are created in the order of their ids
ext_schedule(c) ==
    /\ prod.pc = "idle"
    /\ fate[c] = "unborn"
    /\ \A b \in Cos : fate[b] = "unborn" => c <= b
    /\ Scheduled(ExtThread, c, [ fate EXCEPT ![c] = "injected" ])
    /\ prod' = [ prod EXCEPT
                   !.pc = IF schedule(ExtThread, c).wake THEN "wake_load" ELSE "idle" ]
    /\ UNCHANGED << aux, parked, wakeups, pc, cur, lock, cells, sleeps,
                    worker_ids, tpush >>

\* let parked = self.parked.load(Relaxed); rms; first_thread
wake_one_load ==
    /\ prod.pc = "wake_load"
    /\ prod' = [ pc |-> "wake_rmw", first_thread |-> FirstThread(parked) ]
    /\ UNCHANGED << aux, global_queue, local_queues, deficit, parked, wakeups,
                    pc, cur, lock, cells, sleeps, worker_ids, tpush, fate >>

\* if first_thread < workers { parked.fetch_and(!mask); selector.wakeup(first_thread) }
wake_one_signal ==
    /\ prod.pc = "wake_rmw"
    /\ IF WakeGuard(prod.first_thread, NumWorkers)
       THEN /\ parked' = parked \cap Not64(WakeMask(prod.first_thread, NumWorkers))
            /\ wakeups' = [ wakeups EXCEPT ![prod.first_thread] = TRUE ]
       ELSE UNCHANGED << parked, wakeups >>
    /\ prod' = [ pc |-> "idle", first_thread |-> 0 ]
    /\ UNCHANGED << aux, global_queue, local_queues, deficit, pc, cur, lock,
                    cells, sleeps, worker_ids, tpush, fate >>

(***************************************************************************)
(* init_scheduler: the timer thread and timer_event_handler                *)
(***************************************************************************)
\* for (t, b) in s.sleeps.iter(): b is set and worker_ids has t
TimerTargets ==
    { t \in DOMAIN sleeps : sleeps[t] /\ t \in DOMAIN worker_ids }

\* a take that hands the coroutine out and leaves it in the cell
take_leaves_cell(cs, c) == [ cells |-> cs, got |-> c \in cs ]

\* AtomicOption::take on the cell of coroutine c: one atomic swap with None
take(cs, c) == [ cells |-> cs \ { c }, got |-> c \in cs ]

\* the handler on the timer thread for the cell of coroutine c.  If co.take()
\* returns the coroutine, the handler pushes it onto the deque of the first
\* worker the iteration finds, or finds none and lets go of it.  The push
\* runs on the timer thread: it has read the deque's back index.
TimerHandler(c) ==
    LET r == take(cells, c)
    IN  /\ tpush = NoPush
        /\ cells' = r.cells
        /\ IF ~ r.got
           THEN UNCHANGED << fate, tpush >>
           ELSE IF TimerTargets = {}
           THEN /\ fate' = [ fate EXCEPT ![c] = "dropped" ]
                /\ tpush' = tpush
           ELSE /\ \E t \in TimerTargets :
                     tpush' = [ w   |-> worker_ids[t],
                                co  |-> c,
                                rel |-> Len(local_queues[worker_ids[t]])
                                          - deficit[worker_ids[t]] ]
                /\ fate' = fate
        /\ UNCHANGED << global_queue, local_queues, deficit, parked, wakeups,
                        pc, cur, lock, sleeps, worker_ids, prod >>

\* a timer armed on the cell of a sleeping coroutine fires
timer_event_handler(c) ==
    /\ c \in cells
    /\ TimerHandler(c)
    /\ UNCHANGED aux

\* the rest of local_queues[id].push(c) on the timer thread: the task is
\* written at the index read before and back is stored as that index + 1,
\* whatever the owner pushed meanwhile
timer_push_store(x) ==
    LET w   == tpush.w
        q   == local_queues[w]
        rel == tpush.rel
        raced == Len(q) - deficit[w] > rel
    IN  /\ tpush # NoPush
        /\ x \in (IF raced /\ rel >= 0 THEN { tpush.co, q[rel + 1] } ELSE { tpush.co })
        /\ IF rel >= 0
           THEN /\ local_queues' = [ local_queues EXCEPT ![w] = SubSeq(q, 1, rel) \o << x >> ]
                /\ deficit' = [ deficit EXCEPT ![w] = 0 ]
                /\ fate' = MarkLost(fate,
                              (SeqToSet(SubSeq(q, rel + 1, Len(q))) \cup { tpush.co }) \ { x })
           ELSE /\ local_queues' = [ local_queues EXCEPT ![w] = << >> ]
                /\ deficit' = [ deficit EXCEPT ![w] = 0 - rel - 1 ]
                /\ fate' = MarkLost(fate, SeqToSet(q) \cup { tpush.co })
        /\ tpush' = NoPush

\* s.local_queues[*id].push(c); s.get_selector().wakeup(*id)
timer_push(x) ==
    /\ timer_push_store(x)
    /\ wakeups' = [ wakeups EXCEPT ![tpush.w] = TRUE ]
    /\ UNCHANGED << aux, global_queue, parked, pc, cur, lock, cells, sleeps,
                    worker_ids, prod >>

(***************************************************************************)
(* The scheduler as a state machine                                        *)
(***************************************************************************)
Init ==
    /\ WakeOff
    /\ CallOff
    /\ OnceOff
    /\ IoOff
    /\ LibOff
    /\ SchedOff

Next ==
    \/ \E w \in Workers : worker_register(w)
    \/ \E w \in Workers : local_pop(w)
    \/ \E w \in Workers : steal_peers(w)
    \/ \E w \in Workers : global_is_empty(w)
    \/ \E w \in Workers : steal_global_cas(w)
    \/ \E w \in Workers : steal_global_steal(w)
    \/ \E w \in Workers : steal_global_unlock(w)
    \/ \E w \in Workers : recheck(w)
    \/ \E w \in Workers : co_finish(w)
    \/ \E w \in Workers : co_yield(w)
    \/ \E w \in Workers, b \in BOOLEAN : co_sleep(w, b)
    \/ \E w \in Workers : park(w)
    \/ \E w \in Workers : wake_signal(w)
    \/ \E w \in Workers : self_wake(w)
    \/ \E c \in Cos : ext_schedule(c)
    \/ wake_one_load
    \/ wake_one_signal
    \/ \E c \in Cos : timer_event_handler(c)
    \/ \E c \in Cos : timer_push(c)

Spec == Init /\ [][Next]_vars

(***************************************************************************)
(* Where a coroutine is                                                    *)
(***************************************************************************)
RECURSIVE LocalCount(_, _)
\* occurrences of c in the deques of workers 0 .. n-1
LocalCount(c, n) ==
    IF n = 0 THEN 0
    ELSE Count(local_queues[n - 1], c) + LocalCount(c, n - 1)

\* the number of places that hold coroutine c: queue slots, workers that
\* hold or run it, wakeup cells, the timer thread's hands
Places(c) ==
    Count(global_queue, c)
      + LocalCount(c, NumWorkers)
      + Cardinality({ w \in Workers : cur[w] = c })
      + (IF c \in cells THEN 1 ELSE 0)
      + (IF tpush.co = c THEN 1 ELSE 0)

\* C3: a coroutine taken by a timer fire is enqueued on a run queue (a
\* worker's deque, or the injector when no worker is tracked): it is never
\* let go of without being scheduled.
TimerFireAlwaysSchedules == \A c \in Cos : fate[c] # "dropped"

StealSkipsExactlyParkedPeers ==
    [][ \A w \in Workers :
          steal_peers(w) =>
              LET order == stealers(w)
                  hits  == { i \in DOMAIN order :
                               /\ order[i] \notin parked
                               /\ local_queues[order[i]] # << >> }
              IN  IF hits = {}
                  THEN pc'[w] = "global"
                  ELSE /\ pc'[w] = "run"
                       /\ Len(local_queues'[order[Min(hits)]])
                             < Len(local_queues[order[Min(hits)]]) ]_vars

\* C23: only the owning worker thread pushes onto or pops from its local
\* deque; every other thread takes from it by stealing only, so no thread
\* that is not the owner ever has a push onto a worker's deque under way.
OnlyOwnerPushesLocalDeque == tpush.w \notin Workers

\* C24: at most one thread at a time is inside the steal from the injector,
\* and a thread that calls steal_global while another thread holds the lock
\* returns None at once and removes nothing from the injector.
GlobalStealSerialized ==
    /\ [](Cardinality({ w \in Workers : pc[w] \in { "locked", "unlock" } }) <= 1)
    /\ [][ \A w \in Workers :
              (steal_global_cas(w) /\ lock = 1) =>
                  /\ pc'[w] = "recheck"
                  /\ cur'[w] = NoCo
                  /\ global_queue' = global_queue
                  /\ local_queues' = local_queues ]_vars

\* one worker holds the lock with the injector not empty, the other is back
\* from steal_global with nothing
ContenderReturnedNone ==
    \E w, v \in Workers :
        /\ lock = 1
        /\ pc[w] = "locked"
        /\ pc[v] = "recheck"
        /\ cur[v] = NoCo
        /\ Len(global_queue) >= 2

\* C25: in each iteration of run_queued_tasks the next coroutine is chosen in
\* strict priority order: the worker's own deque first; a steal from a peer
\* only when the local pop returned nothing; the injector only when the local
\* pop and every attempted peer steal returned nothing.
PickInPriorityOrder ==
    [][ /\ \A w \in Workers :
              /\ (pc[w] = "pick" /\ pc'[w] = "run" /\ local_queues[w] # << >>) =>
                    /\ cur'[w] = Head(local_queues[w])
                    /\ local_queues'[w] = Tail(local_queues[w])
                    /\ global_queue' = global_queue
                    /\ \A p \in Workers \ { w } : local_queues'[p] = local_queues[p]
              /\ (pc[w] = "pick" /\ pc'[w] = "run" /\ local_queues[w] = << >>) =>
                    /\ global_queue' = global_queue
                    /\ \E p \in SeqToSet(stealers(w)) :
                          /\ ~ PeerSkipped(parked, p)
                          /\ local_queues[p] # << >>
                          /\ cur'[w] = Head(local_queues[p])
              /\ (pc[w] # "global" /\ pc'[w] = "global") =>
                    /\ pc[w] = "pick"
                    /\ local_queues[w] = << >>
                    /\ \A p \in SeqToSet(stealers(w)) :
                          ~ PeerSkipped(parked, p) => local_queues[p] = << >>
              /\ (pc[w] # "cas" /\ pc'[w] = "cas") => pc[w] = "global"
              /\ (pc[w] # "locked" /\ pc'[w] = "locked") => pc[w] = "cas"
        /\ Len(global_queue') < Len(global_queue) =>
              \E w \in Workers :
                  pc[w] = "locked" /\ cur'[w] = Head(global_queue) ]_vars

\* a worker that found its own deque and its peer's empty took a batch from
\* the injector: it holds the first task, the rest is in its deque
TookBatchFromInjector ==
    \E w \in Workers :
        /\ pc[w] = "unlock"
        /\ cur[w] # NoCo
        /\ local_queues[w] # << >>

\* C30: run_queued_tasks returns only when a pick attempt found nothing and
\* the injector was then observed empty; while the injector is observed not
\* empty the worker goes round the loop again, also when the attempt found
\* nothing because another thread holds the lock of the injector steal.
ReturnsOnlyOnEmptyInjector ==
    [][ \A w \in Workers :
          /\ (pc[w] # "idle" /\ pc'[w] = "idle") =>
                /\ pc[w] = "recheck"
                /\ cur[w] = NoCo
                /\ global_queue = << >>
          /\ (pc[w] # "recheck" /\ pc'[w] = "recheck") =>
                /\ cur'[w] = NoCo
                /\ \/ pc[w] = "global" /\ global_queue = << >>
                   \/ pc[w] = "cas" /\ lock = 1
                   \/ pc[w] = "unlock"
          /\ (pc[w] = "recheck" /\ pc'[w] # "recheck" /\ global_queue # << >>) =>
                pc'[w] = "pick" ]_vars

\* the injector holds tasks, one worker holds the lock and has not taken
\* yet, the other has nothing and is at the top of the loop again
LoopsWhileLockHeld ==
    \E w, v \in Workers :
        /\ lock = 1
        /\ pc[w] = "locked"
        /\ pc[v] = "pick"
        /\ cur[v] = NoCo
        /\ local_queues[v] = << >>
        /\ local_queues[w] = << >>
        /\ Len(global_queue) = MaxCo

\* C5: a coroutine pushed onto the injector by schedule_global is run by
\* some worker in the end; so it is never lost from the queues before it ran.
InjectedCoroutineIsNotLost == \A c \in Cos : fate[c] # "lost_injected"

(***************************************************************************)
(* One call of Scheduler::schedule, from a state of the running scheduler  *)
(***************************************************************************)
Threads == { Tid(w) : w \in Workers } \cup { ExtThread, TimerThread }

\* the sequences without repetition over a set of coroutines
RECURSIVE Arrangements(_)
Arrangements(S) ==
    { << >> } \cup
    UNION { { << c >> \o rest : rest \in Arrangements(S \ { c }) } : c \in S }

\* all workers registered, their flags as init_scheduler inserted them
Registered(flags) ==
    /\ sleeps = [ t \in { Tid(w) : w \in Workers } |-> flags[t[2]] ]
    /\ worker_ids = [ t \in { Tid(w) : w \in Workers } |-> t[2] ]

\* a running scheduler in which thread t is about to call schedule(c): a worker
\* does so for the coroutine it just ran, another thread for a new coroutine;
\* the other coroutines are queued, the idle workers parked
InitSchedule ==
    /\ \E t \in Threads, c \in Cos :
         \E g \in Arrangements(Cos \ { c }),
            l \in [ Workers -> Arrangements(Cos \ { c }) ] :
              LET id == WORKER_ID(t)
                  queued == SeqToSet(g) \cup UNION { SeqToSet(l[w]) : w \in Workers }
              IN  /\ SeqToSet(g) \cap UNION { SeqToSet(l[w]) : w \in Workers } = {}
                  /\ \A v, w \in Workers : v # w => SeqToSet(l[v]) \cap SeqToSet(l[w]) = {}
                  /\ global_queue = g
                  /\ local_queues = l
                  /\ cur = [ w \in Workers |-> IF w = id THEN c ELSE NoCo ]
                  /\ fate = [ b \in Cos |->
                              IF b = c THEN (IF id = NotWorker THEN "unborn" ELSE "injected")
                              ELSE IF b \in queued THEN "injected" ELSE "unborn" ]
                  /\ \E p \in SUBSET { w \in Workers : w # id /\ l[w] = << >> } :
                        /\ parked = p
                        /\ pc = [ w \in Workers |->
                                    IF w = id THEN "run"
                                    ELSE IF w \in p THEN "parked" ELSE "pick" ]
                        /\ call = [ thread |-> t, co |-> c, done |-> FALSE,
                                    woke |-> FALSE, global |-> g, local |-> l,
                                    parked |-> p ]
    /\ Registered([ w \in Workers |-> FALSE ])
    /\ deficit = [ w \in Workers |-> 0 ]
    /\ wakeups = [ w \in Workers |-> FALSE ]
    /\ lock = 0
    /\ cells = {}
    /\ prod = [ pc |-> "idle", first_thread |-> 0 ]
    /\ tpush = NoPush
    /\ WakeOff
    /\ OnceOff
    /\ IoOff
    /\ LibOff


\* schedule(co) on call.thread, with the wake_one that schedule_global makes
schedule_call ==
    /\ ~ call.done
    /\ LET t == call.thread
           c == call.co
           r == schedule(t, c)
       IN  /\ ScheduleAndWake(t, c,
                 [ fate EXCEPT ![c] = IF t[1] = "worker" THEN "ran" ELSE "injected" ])
           /\ cur' = [ w \in Workers |-> IF Tid(w) = t THEN NoCo ELSE cur[w] ]
           /\ pc' = [ w \in Workers |-> IF Tid(w) = t THEN "pick" ELSE pc[w] ]
           /\ call' = [ call EXCEPT !.done = TRUE, !.woke = r.wake ]
    /\ UNCHANGED << libVars, wk, once, io, lock, cells, sleeps, worker_ids, prod, tpush >>

NextSchedule == schedule_call

SpecSchedule == InitSchedule /\ [][NextSchedule]_vars

\* C8: schedule(co) on a worker thread pushes co onto that worker's own deque
\* and sends no wakeup; on any other thread it pushes co onto the injector
\* and calls wake_one.  Either way co is enqueued once and no other queue
\* changes.
ScheduleTargetsOwnDequeOrInjector ==
    call.done =>
        LET id == WORKER_ID(call.thread)
        IN  /\ Places(call.co) = 1
            /\ IF id \in Workers
               THEN /\ local_queues = [ call.local EXCEPT ![id] = Append(@, call.co) ]
                    /\ global_queue = call.global
                    /\ ~ call.woke
                    /\ parked = call.parked
                    /\ \A w \in Workers : ~ wakeups[w]
               ELSE /\ global_queue = Append(call.global, call.co)
                    /\ local_queues = call.local
                    /\ call.woke

\* a worker has called schedule while its deque and the injector held other
\* coroutines and a peer was parked
ScheduleCalledOnWorker ==
    /\ call.done
    /\ WORKER_ID(call.thread) \in Workers
    /\ Len(local_queues[WORKER_ID(call.thread)]) > 1
    /\ global_queue # << >>
    /\ call.parked # {}

(***************************************************************************)
(* get_scheduler and init_scheduler: static mut SCHED and ONCE             *)
(***************************************************************************)
MaxCallers == 3

Callers == 1 .. MaxCallers

\* std::ptr::null(); the boxes Scheduler::new returns are numbered from 1
NullPtr == 0

\* a Once that lets a second closure in while the first is still running
OnceStartsUnlessComplete(state) == state # "complete"

\* Once::call_once runs the closure only for the call that finds it incomplete
OnceStarts(state) == state = "incomplete"

\* no thread has called get_scheduler yet
InitOnce ==
    /\ once = [ SCHED |-> NullPtr, ONCE |-> "incomplete", boxes |-> 0,
                writes |-> 0, hooks |-> 0, timers |-> 0, spawned |-> 0,
                at  |-> [ c \in Callers |-> "start" ],
                b   |-> [ c \in Callers |-> NullPtr ],
                id  |-> [ c \in Callers |-> 0 ],
                via |-> [ c \in Callers |-> "none" ],
                ret |-> [ c \in Callers |-> NullPtr ] ]
    /\ WakeOff
    /\ CallOff
    /\ IoOff
    /\ LibOff
    /\ SchedOff

\* if likely(!SCHED.is_null()) { return &*SCHED; }  The read of the static is
\* not synchronised with the write in init_scheduler: it sees the pointer
\* written or still null.
gs_fast_path(c) ==
    /\ once.at[c] = "start"
    /\ \E seen \in { NullPtr, once.SCHED } :
          once' = IF seen # NullPtr
                  THEN [ once EXCEPT !.at[c] = "ret", !.ret[c] = seen,
                                     !.via[c] = "fast" ]
                  ELSE [ once EXCEPT !.at[c] = "call_once" ]
    /\ UNCHANGED << libVars, wk, call, io, schedVars >>

\* ONCE.call_once(init_scheduler): run the closure, or wait for the thread
\* that runs it and go on when it is complete
gs_call_once(c) ==
    /\ once.at[c] = "call_once"
    /\ IF OnceStarts(once.ONCE)
       THEN once' = [ once EXCEPT !.ONCE = "running", !.at[c] = "init_new",
                                  !.via[c] = "init" ]
       ELSE /\ once.ONCE = "complete"
            /\ once' = [ once EXCEPT !.at[c] = "read", !.via[c] = "waited" ]
    /\ UNCHANGED << libVars, wk, call, io, schedVars >>

\* let b: Box<Scheduler> = Scheduler::new(workers)
init_new(c) ==
    /\ once.at[c] = "init_new"
    /\ once' = [ once EXCEPT !.boxes = @ + 1, !.b[c] = once.boxes + 1,
                             !.at[c] = "init_write" ]
    /\ UNCHANGED << libVars, wk, call, io, schedVars >>

\* SCHED = Box::into_raw(b)
init_write(c) ==
    /\ once.at[c] = "init_write"
    /\ once' = [ once EXCEPT !.SCHED = once.b[c], !.writes = @ + 1,
                             !.at[c] = "init_hook" ]
    /\ UNCHANGED << libVars, wk, call, io, schedVars >>

\* filter_cancel_panic()
init_hook(c) ==
    /\ once.at[c] = "init_hook"
    /\ once' = [ once EXCEPT !.hooks = @ + 1, !.at[c] = "init_timer" ]
    /\ UNCHANGED << libVars, wk, call, io, schedVars >>

\* thread::spawn of the timer thread
init_timer(c) ==
    /\ once.at[c] = "init_timer"
    /\ once' = [ once EXCEPT !.timers = @ + 1, !.at[c] = "init_workers" ]
    /\ UNCHANGED << libVars, wk, call, io, schedVars >>

\* for id in 0..workers { thread::spawn(..) }: one turn of the loop
init_worker(c) ==
    /\ once.at[c] = "init_workers"
    /\ once.id[c] < NumWorkers
    /\ once' = [ once EXCEPT !.spawned = @ + 1, !.id[c] = @ + 1 ]
    /\ UNCHANGED << libVars, wk, call, io, schedVars >>

\* init_scheduler returns and the Once is complete
init_return(c) ==
    /\ once.at[c] = "init_workers"
    /\ once.id[c] = NumWorkers
    /\ once' = [ once EXCEPT !.ONCE = "complete", !.at[c] = "read" ]
    /\ UNCHANGED << libVars, wk, call, io, schedVars >>

\* unsafe { &*SCHED } after call_once
gs_read(c) ==
    /\ once.at[c] = "read"
    /\ once' = [ once EXCEPT !.at[c] = "ret", !.ret[c] = once.SCHED ]
    /\ UNCHANGED << libVars, wk, call, io, schedVars >>

NextOnce ==
    \/ \E c \in Callers : gs_fast_path(c)
    \/ \E c \in Callers : gs_call_once(c)
    \/ \E c \in Callers : init_new(c)
    \/ \E c \in Callers : init_write(c)
    \/ \E c \in Callers : init_hook(c)
    \/ \E c \in Callers : init_timer(c)
    \/ \E c \in Callers : init_worker(c)
    \/ \E c \in Callers : init_return(c)
    \/ \E c \in Callers : gs_read(c)

SpecOnce == InitOnce /\ [][NextOnce]_vars

\* C9: concurrent calls of get_scheduler run init_scheduler once: SCHED is
\* written once, one timer thread and `workers` worker threads are spawned,
\* and every caller gets the same scheduler, which is not null.
GetSchedulerInitsOnce ==
    /\ once.boxes <= 1 /\ once.writes <= 1 /\ once.timers <= 1
    /\ once.spawned <= NumWorkers
    /\ Cardinality({ c \in Callers : once.via[c] = "init" }) <= 1
    /\ once.ONCE = "complete" =>
          /\ once.writes = 1 /\ once.timers = 1 /\ once.spawned = NumWorkers
    /\ (\A c \in Callers : once.at[c] = "ret") => once.ONCE = "complete"
    /\ \A c \in Callers :
          once.at[c] = "ret" => (once.ret[c] # NullPtr /\ once.ret[c] = once.SCHED)

\* every caller has returned: one ran init_scheduler, one waited in call_once
\* for it, one returned by the unsynchronised check
GetSchedulerCalledConcurrently ==
    /\ \A c \in Callers : once.at[c] = "ret"
    /\ \E c \in Callers : once.via[c] = "init"
    /\ \E c \in Callers : once.via[c] = "waited"
    /\ \E c \in Callers : once.via[c] = "fast"

(***************************************************************************)
(* Blocking I/O: EventSource::subscribe of SocketWrite and of               *)
(* TcpListenerAccept, the wakeup cell of the event data and its takers     *)
(***************************************************************************)
MaxIoCo == 1
MaxCancels == 2

IoCos == 1 .. MaxIoCo

\* the worker whose thread runs subscribe for c and polls its completion
IoHome(c) == c - 1

\* one more take of the cell of c in the record of its I/O
Taken(rec, got) ==
    [ rec EXCEPT !.tries = @ + (IF rec.installed THEN 1 ELSE 0),
                 !.got = @ + (IF got THEN 1 ELSE 0) ]

\* one more take of the cell of c by a call of cancel()
CancelTaken(rec, got) ==
    [ Taken(rec, got) EXCEPT !.by_cancel = @ + (IF got THEN 1 ELSE 0) ]

\* a waker that schedules the coroutine whether or not its take returned it
TakeAndScheduleAlways(t, c) ==
    /\ cells' = take(cells, c).cells
    /\ ScheduleAndWake(t, c, fate)

\* a waker on thread t: take the cell and, when that returned the coroutine,
\* schedule it
TakeAndSchedule(t, c) ==
    LET r == take(cells, c)
    IN  /\ cells' = r.cells
        /\ IF r.got
           THEN ScheduleAndWake(t, c, fate)
           ELSE UNCHANGED << global_queue, local_queues, deficit, fate, parked,
                             wakeups >>

\* each I/O coroutine was run by its worker and has just yielded with an
\* event source: the worker is about to call subscribe
InitIO ==
    /\ \E kinds \in [ IoCos -> { "write", "accept" } ],
          touts \in [ IoCos -> BOOLEAN ],
          flags \in [ Workers -> BOOLEAN ] :
          /\ \A c \in IoCos : kinds[c] = "accept" => ~ touts[c]
          /\ io = [ c \in IoCos |->
                      [ kind |-> kinds[c], timeout |-> touts[c], at |-> "start",
                        timer |-> "none", req |-> "none", installed |-> FALSE,
                        flag |-> FALSE, set_io |-> FALSE, canceller |-> "idle",
                        cancels |-> 0, rechecked |-> FALSE, by_cancel |-> 0,
                        tries |-> 0, got |-> 0 ] ]
          /\ Registered(flags)
    /\ pc = [ w \in Workers |-> IF w + 1 \in IoCos THEN "run" ELSE "pick" ]
    /\ cur = [ w \in Workers |-> IF w + 1 \in IoCos THEN w + 1 ELSE NoCo ]
    /\ fate = [ c \in Cos |-> IF c \in IoCos THEN "injected" ELSE "unborn" ]
    /\ global_queue = << >>
    /\ local_queues = [ w \in Workers |-> << >> ]
    /\ deficit = [ w \in Workers |-> 0 ]
    /\ parked = {}
    /\ wakeups = [ w \in Workers |-> FALSE ]
    /\ lock = 0
    /\ cells = {}
    /\ prod = [ pc |-> "idle", first_thread |-> 0 ]
    /\ tpush = NoPush
    /\ WakeOff
    /\ CallOff
    /\ OnceOff
    /\ LibOff

\* SocketWrite: if let Some(dur) = self.timeout { add_io_timer(..) }
\* TcpListenerAccept: let cancel = co_cancel_data(&co); no timer
subscribe_begin(c) ==
    /\ io[c].at = "start"
    /\ io' = [ io EXCEPT ![c].at = "install",
                         ![c].timer = IF io[c].kind = "write" /\ io[c].timeout
                                      THEN "armed" ELSE "none" ]
    /\ UNCHANGED << libVars, wk, call, once, schedVars >>

\* self.io_data.co = Some(co)
subscribe_install(c) ==
    /\ io[c].at = "install"
    /\ cells' = cells \cup { c }
    /\ cur' = [ cur EXCEPT ![IoHome(c)] = NoCo ]
    /\ fate' = [ fate EXCEPT ![c] = "ran" ]
    /\ io' = [ io EXCEPT ![c].at = "submit", ![c].installed = TRUE ]
    /\ UNCHANGED << libVars, wk, call, once, global_queue, local_queues, deficit, parked,
                    wakeups, pc, lock, sleeps, worker_ids, prod, tpush >>

\* co_try!(s, self.io_data.co.take().expect(..), overlapped call): Ok
subscribe_submit_ok(c) ==
    /\ io[c].at = "submit"
    /\ io' = [ io EXCEPT ![c].req = "pending",
                         ![c].at = IF io[c].kind = "accept" THEN "set_io" ELSE "end" ]
    /\ pc' = [ pc EXCEPT ![IoHome(c)] = IF io[c].kind = "accept" THEN @ ELSE "pick" ]
    /\ UNCHANGED << libVars, wk, call, once, global_queue, local_queues, deficit, parked,
                    wakeups, cur, lock, cells, sleeps, worker_ids, prod, tpush,
                    fate >>

\* co_try!: the overlapped call returned Err: the coroutine is taken back out
\* of the cell and scheduled, and subscribe returns; expect panics on None
subscribe_submit_err(c) ==
    /\ io[c].at = "submit"
    /\ TakeAndSchedule(Tid(IoHome(c)), c)
    /\ io' = [ io EXCEPT ![c] = [ Taken(io[c], c \in cells) EXCEPT
                                    !.at = IF c \in cells THEN "end" ELSE "panic" ] ]
    /\ pc' = [ pc EXCEPT ![IoHome(c)] = IF c \in cells THEN "pick" ELSE "panic" ]
    /\ UNCHANGED << libVars, wk, call, once, cur, lock, sleeps, worker_ids, prod, tpush >>

\* cancel.set_io(CancelIoData::new(&self.io_data))
subscribe_set_io(c) ==
    /\ io[c].at = "set_io"
    /\ io' = [ io EXCEPT ![c].set_io = TRUE, ![c].at = "recheck" ]
    /\ UNCHANGED << libVars, wk, call, once, schedVars >>

\* if cancel.is_canceled() { _ = cancel.cancel(); }
subscribe_recheck(c) ==
    /\ io[c].at = "recheck"
    /\ IF io[c].flag
       THEN /\ TakeAndSchedule(Tid(IoHome(c)), c)
            /\ io' = [ io EXCEPT ![c] = [ CancelTaken(io[c], c \in cells) EXCEPT
                                            !.at = "end", !.rechecked = TRUE ] ]
       ELSE /\ io' = [ io EXCEPT ![c].at = "end" ]
            /\ UNCHANGED << global_queue, local_queues, deficit, fate, parked,
                            wakeups, cells >>
    /\ pc' = [ pc EXCEPT ![IoHome(c)] = "pick" ]
    /\ UNCHANGED << libVars, wk, call, once, cur, lock, sleeps, worker_ids, prod, tpush >>

\* another thread calls cancel() on the coroutine, for the first time or
\* again: first the cancelled flag is set
cancel_set_flag(c) ==
    /\ \/ io[c].canceller = "idle"
       \/ io[c].canceller = "done" /\ io[c].cancels < MaxCancels
    /\ io' = [ io EXCEPT ![c].flag = TRUE, ![c].canceller = "flagged" ]
    /\ UNCHANGED << libVars, wk, call, once, schedVars >>

\* then the I/O registered in the cancel data, if any, is cancelled and its
\* timer removed
cancel_registered_io(c) ==
    /\ io[c].canceller = "flagged"
    /\ IF io[c].set_io
       THEN /\ TakeAndSchedule(ExtThread, c)
            /\ io' = [ io EXCEPT ![c] = [ CancelTaken(io[c], c \in cells) EXCEPT
                                            !.canceller = "done", !.timer = "none",
                                            !.cancels = @ + 1 ] ]
       ELSE /\ io' = [ io EXCEPT ![c].canceller = "done", ![c].cancels = @ + 1 ]
            /\ UNCHANGED << global_queue, local_queues, deficit, fate, parked,
                            wakeups, cells >>
    /\ UNCHANGED << libVars, wk, call, once, pc, cur, lock, sleeps, worker_ids, prod,
                    tpush >>

\* the event loop of the worker gets the completion of the request
io_completion(c) ==
    /\ io[c].req = "pending"
    /\ pc[IoHome(c)] = "pick"
    /\ TakeAndSchedule(Tid(IoHome(c)), c)
    /\ io' = [ io EXCEPT ![c] = [ Taken(io[c], c \in cells) EXCEPT !.req = "done" ] ]
    /\ UNCHANGED << libVars, wk, call, once, pc, cur, lock, sleeps, worker_ids, prod,
                    tpush >>

\* the timer armed by add_io_timer fires: timer_event_handler on its cell
io_timer_fire(c) ==
    /\ io[c].timer = "armed"
    /\ TimerHandler(c)
    /\ io' = [ io EXCEPT ![c] = [ Taken(io[c], c \in cells) EXCEPT !.timer = "fired" ] ]
    /\ UNCHANGED << libVars, wk, call, once >>

NextIO ==
    \/ \E c \in IoCos : subscribe_begin(c)
    \/ \E c \in IoCos : subscribe_install(c)
    \/ \E c \in IoCos : subscribe_submit_ok(c)
    \/ \E c \in IoCos : subscribe_submit_err(c)
    \/ \E c \in IoCos : subscribe_set_io(c)
    \/ \E c \in IoCos : subscribe_recheck(c)
    \/ \E c \in IoCos : cancel_set_flag(c)
    \/ \E c \in IoCos : cancel_registered_io(c)
    \/ \E c \in IoCos : io_completion(c)
    \/ \E c \in IoCos : io_timer_fire(c)
    \/ \E c \in Cos : timer_push(c)

SpecIO == InitIO /\ [][NextIO]_vars

\* C1: of the takes that race for a wakeup cell that holds a coroutine (timer
\* thread, completion handler, canceller), one returns the coroutine and
\* every other one, then and later, returns empty.
WakeupCellTakenOnce ==
    \A c \in IoCos :
        /\ io[c].got <= 1
        /\ io[c].tries >= 1 => io[c].got = 1

\* the timer fired and the completion arrived for the same cell: one got the
\* coroutine, the other found the cell empty
WakeupCellRaced ==
    \E c \in IoCos :
        /\ io[c].timer = "fired" /\ io[c].req = "done"
        /\ io[c].tries >= 2 /\ io[c].got = 1

CancelledIoIsCancelled ==
    \A c \in IoCos :
        ( /\ io[c].flag /\ io[c].canceller = "done"
          /\ io[c].at = "end" /\ io[c].req = "pending" )
            => c \notin cells

SubscribeInstallsSubmitsRegisters ==
    \A c \in IoCos :
        /\ io[c].req # "none" => io[c].installed
        /\ io[c].set_io => io[c].req # "none"
        /\ (io[c].at = "end" /\ io[c].req # "none") => io[c].set_io

MaxChildren == 2

JoinCos == 1 .. MaxChildren

\* the outcomes a child can end with where it stands: a cancel is observed at
\* the suspension point, a panic can happen anywhere, a return ends the body
Outcomes(st, cancelled) ==
    IF st = "yielded"
    THEN IF cancelled THEN { "cancel" } ELSE { "return", "panic" }
    ELSE { "panic" }

JoinReadyAlways(signals) == TRUE

\* Join: the slot is ready once the coroutine has signalled
JoinReady(signals) == signals > 0

\* the parent moves on to the next handle, or is through with them
JoinNext(j) ==
    IF j.at = MaxChildren
    THEN [ j EXCEPT !.ppc = "done" ]
    ELSE [ j EXCEPT !.ppc = "join", !.at = j.at + 1 ]

\* join returns what the slot holds
JoinReturn(j, c) == JoinNext([ j EXCEPT !.got[c] = j.slot[c] ])

InitJoin ==
    /\ jn = [ st        |-> [ c \in JoinCos |-> "unspawned" ],
              cancelled |-> [ c \in JoinCos |-> FALSE ],
              slot      |-> [ c \in JoinCos |-> "empty" ],
              signals   |-> [ c \in JoinCos |-> 0 ],
              got       |-> [ c \in JoinCos |-> "none" ],
              waited    |-> [ c \in JoinCos |-> FALSE ],
              ppc       |-> "spawn",
              at        |-> 1 ]
    /\ WakeOff
    /\ CallOff
    /\ OnceOff
    /\ IoOff
    /\ HookOff
    /\ ClsOff
    /\ BtreeOff
    /\ MapOff
    /\ SchedOff
    /\ StealersOff
    /\ TimerOff
    /\ PoisonOff
    /\ StealGlobalOff

\* everything but jn
notJoin == << wk, call, once, io, hook, cls, bt, sm, sn, tm, ps, sg, schedVars >>

\* go!: the parent spawns the next child and keeps its handle
join_spawn ==
    /\ jn.ppc = "spawn"
    /\ jn' = [ jn EXCEPT !.st[jn.at] = "running",
                         !.at = IF jn.at = MaxChildren THEN 1 ELSE jn.at + 1,
                         !.ppc = IF jn.at = MaxChildren THEN "yield" ELSE "spawn" ]
    /\ UNCHANGED notJoin

\* the parent's yield_now before it joins
join_parent_yield ==
    /\ jn.ppc = "yield"
    /\ jn' = [ jn EXCEPT !.ppc = "join" ]
    /\ UNCHANGED notJoin

\* the child's yield_now
join_child_yield(c) ==
    /\ jn.st[c] = "running"
    /\ jn' = [ jn EXCEPT !.st[c] = "yielded" ]
    /\ UNCHANGED notJoin

\* somebody cancels the child while it lives
join_cancel(c) ==
    /\ jn.st[c] \in { "running", "yielded" }
    /\ ~jn.cancelled[c]
    /\ jn' = [ jn EXCEPT !.cancelled[c] = TRUE ]
    /\ UNCHANGED notJoin

\* the child terminates: its body returns, panics, or unwinds with the cancel
\* panic; the outcome is written to the join slot
join_child_end(c) ==
    /\ jn.st[c] \in { "running", "yielded" }
    /\ \E h \in Outcomes(jn.st[c], jn.cancelled[c]) :
          jn' = [ jn EXCEPT !.st[c] = "ended", !.slot[c] = h ]
    /\ UNCHANGED notJoin

\* the join slot is signalled after the coroutine has ended
join_trigger(c) ==
    /\ jn.st[c] = "ended"
    /\ jn' = [ jn EXCEPT !.st[c] = "done", !.signals[c] = jn.signals[c] + 1 ]
    /\ UNCHANGED notJoin

\* JoinHandle::join: returns at once when the slot is ready, blocks otherwise
join_call ==
    /\ jn.ppc = "join"
    /\ jn' = IF JoinReady(jn.signals[jn.at])
             THEN JoinReturn(jn, jn.at)
             ELSE [ jn EXCEPT !.ppc = "waiting", !.waited[jn.at] = TRUE ]
    /\ UNCHANGED notJoin

\* the blocked join is woken by the signal and returns
join_wake ==
    /\ jn.ppc = "waiting"
    /\ JoinReady(jn.signals[jn.at])
    /\ jn' = JoinReturn(jn, jn.at)
    /\ UNCHANGED notJoin

NextJoin ==
    \/ join_spawn
    \/ join_parent_yield
    \/ \E c \in JoinCos : join_child_yield(c)
    \/ \E c \in JoinCos : join_cancel(c)
    \/ \E c \in JoinCos : join_child_end(c)
    \/ \E c \in JoinCos : join_trigger(c)
    \/ join_call
    \/ join_wake

\* the worker that ran the coroutine goes on to signal the slot, and a woken
\* joiner is scheduled again
SpecJoin ==
    /\ InitJoin
    /\ [][NextJoin]_vars
    /\ \A c \in JoinCos : WF_vars(join_trigger(c))
    /\ WF_vars(join_wake)

JoinTerminated(c) == jn.st[c] \in { "ended", "done" }

\* C12: the join handle of a coroutine that terminated (return, panic or
\* cancel) becomes ready exactly once; a join never returns before the
\* coroutine has terminated, returns what the coroutine ended with, and a join
\* waiting on a terminated coroutine returns.
JoinReadyOnceAndReturns ==
    /\ [](\A c \in JoinCos :
            /\ jn.signals[c] <= 1
            /\ jn.signals[c] = 1 => JoinTerminated(c)
            /\ jn.got[c] # "none" =>
                  /\ JoinTerminated(c)
                  /\ jn.signals[c] = 1
                  /\ jn.got[c] = jn.slot[c])
    /\ \A c \in JoinCos : JoinTerminated(c) ~> (jn.signals[c] = 1)
    /\ \A c \in JoinCos :
          (JoinTerminated(c) /\ jn.ppc = "waiting" /\ jn.at = c)
              ~> (jn.got[c] # "none")

JoinWaitedThenReturned ==
    \E c \in JoinCos :
        /\ jn.waited[c]
        /\ jn.got[c] = "cancel"
        /\ jn.signals[c] = 1

(***************************************************************************)
(* filter_cancel_panic: the hook the scheduler puts in front of the        *)
(* process panic hook                                                      *)
(***************************************************************************)
MaxPanics == 2

\* what a panic can carry: a value of mco_gen's Error, or anything else
Payloads ==
    { [ type |-> "Error", variant |-> v ] : v \in { "Cancel", "TypeErr", "StackErr" } }
        \cup { [ type |-> "str", variant |-> "message" ] }

\* the PanicInfo handed to a hook: the payload and where the panic was raised
PanicInfos == { [ payload |-> p, location |-> l ] : p \in Payloads, l \in 1 .. 2 }

\* info.payload().downcast_ref::<Error>()
downcast_ref(payload) ==
    IF payload.type = "Error" THEN payload.variant ELSE "None"

IsAnyError(payload) == downcast_ref(payload) # "None"

\* if let Some(&Error::Cancel) = ...
IsCancel(payload) == downcast_ref(payload) = "Cancel"

\* the closure filter_cancel_panic installs, in front of the hook `old` that
\* was installed before it: what reaches `old`
filter_hook(old, info) ==
    IF IsCancel(info.payload)
    THEN << >>
    ELSE << [ hook |-> old, info |-> info ] >>

\* the hook in force handles a panic
run_hook(h, info) ==
    IF h.filter THEN filter_hook(h.old, info)
    ELSE << [ hook |-> h.old, info |-> info ] >>

InitHook ==
    /\ \E o \in { "default", "user" }, p \in BOOLEAN :
          hook = [ cur       |-> [ filter |-> FALSE, old |-> o ],
                   panicking |-> p,
                   called    |-> FALSE,
                   raised    |-> << >>,
                   reached   |-> << >> ]
    /\ WakeOff
    /\ CallOff
    /\ OnceOff
    /\ IoOff
    /\ JoinOff
    /\ ClsOff
    /\ BtreeOff
    /\ MapOff
    /\ SchedOff
    /\ StealersOff
    /\ TimerOff
    /\ PoisonOff
    /\ StealGlobalOff

notHook == << wk, call, once, io, jn, cls, bt, sm, sn, tm, ps, sg, schedVars >>

\* filter_cancel_panic, called once from the scheduler's initialisation
filter_cancel_panic ==
    /\ ~hook.called
    /\ hook' = [ hook EXCEPT
                   !.called = TRUE,
                   !.cur = IF hook.panicking
                           THEN hook.cur
                           ELSE [ filter |-> TRUE, old |-> hook.cur.old ] ]
    /\ UNCHANGED notHook

\* a panic is raised and the hook in force is called with its info
hook_panic(info) ==
    /\ Len(hook.raised) < MaxPanics
    /\ hook' = [ hook EXCEPT
                   !.raised = Append(hook.raised,
                                     [ info |-> info, filtered |-> hook.cur.filter ]),
                   !.reached = Append(hook.reached, run_hook(hook.cur, info)) ]
    /\ UNCHANGED notHook

NextHook ==
    \/ filter_cancel_panic
    \/ \E info \in PanicInfos : hook_panic(info)

SpecHook == InitHook /\ [][NextHook]_vars

\* C13: once the scheduler's hook is installed, a panic with the Cancel
\* payload does not reach the hook that was installed before, and a panic with
\* any other payload reaches it exactly once, with the same panic info.
CancelPanicFiltered ==
    \A i \in 1 .. Len(hook.raised) :
        hook.raised[i].filtered =>
            IF hook.raised[i].info.payload = [ type |-> "Error", variant |-> "Cancel" ]
            THEN hook.reached[i] = << >>
            ELSE hook.reached[i] =
                     << [ hook |-> hook.cur.old, info |-> hook.raised[i].info ] >>

CancelAndOtherPanicsRaised ==
    /\ hook.cur.filter
    /\ \E i, j \in 1 .. Len(hook.raised) :
          /\ hook.raised[i].filtered /\ hook.raised[j].filtered
          /\ hook.raised[i].info.payload.variant = "Cancel"
          /\ hook.raised[j].info.payload.variant = "TypeErr"
          /\ hook.reached[j] # << >>

(***************************************************************************)
(* Coroutine-local storage (local.rs): LocalKey::with over the map of the  *)
(* running coroutine, or over the thread's LOCALMAP outside a coroutine.   *)
(* Worker threads resume coroutines and the coroutines yield, so that a    *)
(* coroutine's accesses come from different threads; the main thread runs  *)
(* no coroutine and uses the keys directly.                                *)
(***************************************************************************)
NumClsThreads == 2
MaxClsCos == 2
MaxKeys == 2

\* the thread that is not a worker: it never runs a coroutine
MainThread == 0

ClsWorkers == 1 .. NumClsThreads

ClsThreads == { MainThread } \cup ClsWorkers

ClsCos == 1 .. MaxClsCos

\* the TypeId values the keys produce
ClsKeys == 1 .. MaxKeys

\* no entry under a key
Absent == -1

\* LOCALMAP: thread_local!, one map for each thread
LOCALMAP(t) == t + 1

CoLocalShared(c) == NumClsThreads + 2

\* CoroutineLocal::new: a fresh box for each coroutine, it holds local_data
CoLocal(c) == NumClsThreads + 1 + c

MapAddrs == { LOCALMAP(t) : t \in ClsThreads } \cup { CoLocal(c) : c \in ClsCos }

\* mco_gen's get_local_data: the local pointer of the coroutine the thread is
\* running, null outside a coroutine
get_local_data(t) ==
    IF cls.run[t] = NoCo THEN NullPtr ELSE CoLocal(cls.run[t])

\* NonNull::new of that pointer: None (null) or the CoroutineLocal
get_co_local_data(t) == get_local_data(t)

with_thread_map(t) == LOCALMAP(t)

\* with: the map the closure is run on
with(t) ==
    IF get_co_local_data(t) # NullPtr
    THEN get_co_local_data(t)
    ELSE LOCALMAP(t)

\* (self.__init)(): the value a key starts with
InitValue(k) == 0

\* who is executing on a thread: the coroutine it runs, or the thread itself
CtxOf(t) ==
    IF cls.run[t] = NoCo THEN << "thread", t >> ELSE << "co", cls.run[t] >>

Ctxs == { << "thread", t >> : t \in ClsThreads } \cup { << "co", c >> : c \in ClsCos }

\* what a context stores: every coroutine and every thread has its own value
OwnValue(x) == IF x[1] = "co" THEN x[2] ELSE MaxClsCos + 1 + x[2]

insert_always(map, k) ==
    [ map |-> [ map EXCEPT ![k] = InitValue(k) ], ran |-> TRUE ]

\* data.entry(key).or_insert_with(|| Box::new((self.__init)())): the map
\* afterwards, and whether the initializer ran
or_insert_with(map, k) ==
    IF map[k] = Absent
    THEN [ map |-> [ map EXCEPT ![k] = InitValue(k) ], ran |-> TRUE ]
    ELSE [ map |-> map, ran |-> FALSE ]

NoAccess ==
    [ thread |-> MainThread, ctx |-> << "none", 0 >>, key |-> 0, op |-> "none",
      addr |-> NullPtr, touched |-> {}, ran_init |-> FALSE, prev |-> Absent,
      value |-> Absent ]

InitCls ==
    /\ cls = [ run   |-> [ t \in ClsThreads |-> NoCo ],
               heap  |-> [ a \in MapAddrs |-> [ k \in ClsKeys |-> Absent ] ],
               inits |-> [ x \in Ctxs |-> [ k \in ClsKeys |-> 0 ] ],
               seen  |-> [ x \in Ctxs |-> [ k \in ClsKeys |-> Absent ] ],
               home  |-> [ c \in ClsCos |-> MainThread ],
               last  |-> NoAccess ]
    /\ WakeOff
    /\ CallOff
    /\ OnceOff
    /\ IoOff
    /\ JoinOff
    /\ HookOff
    /\ BtreeOff
    /\ MapOff
    /\ SchedOff
    /\ StealersOff
    /\ TimerOff
    /\ PoisonOff
    /\ StealGlobalOff

notCls == << wk, call, once, io, jn, hook, bt, sm, sn, tm, ps, sg, schedVars >>

\* a worker thread resumes a coroutine that no thread is running
cls_resume(t, c) ==
    /\ cls.run[t] = NoCo
    /\ \A u \in ClsThreads : cls.run[u] # c
    /\ cls' = [ cls EXCEPT !.run[t] = c ]
    /\ UNCHANGED notCls

\* the coroutine yields; any worker may resume it next
cls_yield(t) ==
    /\ cls.run[t] # NoCo
    /\ cls' = [ cls EXCEPT !.run[t] = NoCo ]
    /\ UNCHANGED notCls

\* LocalKey::with(f) on thread t, where f reads the value ("get") or stores
\* the context's own value through the shared reference ("set").  Per context
\* and key the model keeps the count of the initializer's runs and the value
\* the context last saw or stored.
LocalKey_with(t, k, op) ==
    LET a     == with(t)
        x     == CtxOf(t)
        entry == or_insert_with(cls.heap[a], k)
        heap2 == [ cls.heap EXCEPT
                     ![a] = IF op = "set"
                            THEN [ entry.map EXCEPT ![k] = OwnValue(x) ]
                            ELSE entry.map ]
    IN  /\ cls' = [ cls EXCEPT
                      !.heap = heap2,
                      !.inits[x][k] = IF entry.ran /\ @ < 2 THEN @ + 1 ELSE @,
                      !.seen[x][k] = heap2[a][k],
                      !.home = IF x[1] = "co" /\ op = "set"
                               THEN [ @ EXCEPT ![x[2]] = t ]
                               ELSE @,
                      !.last = [ thread |-> t, ctx |-> x, key |-> k, op |-> op,
                                 addr |-> a,
                                 touched |-> { b \in MapAddrs :
                                                 heap2[b] # cls.heap[b] },
                                 ran_init |-> entry.ran,
                                 prev |-> cls.seen[x][k],
                                 value |-> entry.map[k] ] ]
        /\ UNCHANGED notCls

NextCls ==
    \/ \E t \in ClsWorkers, c \in ClsCos : cls_resume(t, c)
    \/ \E t \in ClsWorkers : cls_yield(t)
    \/ \E t \in ClsThreads, k \in ClsKeys, op \in { "get", "set" } :
          /\ t \in ClsWorkers => cls.run[t] # NoCo
          /\ LocalKey_with(t, k, op)

SpecCls == InitCls /\ [][NextCls]_vars

\* the map the claim assigns to a context
OwnMap(x) == IF x[1] = "co" THEN CoLocal(x[2]) ELSE LOCALMAP(x[2])

\* C14: a LocalKey access uses the map of the coroutine the calling thread is
\* running, and the calling thread's fallback map outside a coroutine; it
\* always finds a map, and it touches no other coroutine's or thread's map.
AccessUsesOwnMap ==
    cls.last.op # "none" =>
        /\ cls.last.addr \in MapAddrs
        /\ cls.last.addr = OwnMap(cls.last.ctx)
        /\ cls.last.touched \subseteq { OwnMap(cls.last.ctx) }

AccessedInAndOutsideCoroutine ==
    /\ cls.last.ctx = << "thread", MainThread >>
    /\ cls.last.op = "set"
    /\ cls.last.addr = LOCALMAP(MainThread)
    /\ \E c \in ClsCos : cls.seen[<< "co", c >>][cls.last.key] = c

\* C15: a coroutine that stored its value under a key reads that value back,
\* on whichever worker it is resumed; no access observes a value that another
\* context stored, and no thread's fallback map holds a coroutine's value.
CoroutineLocalsIsolated ==
    /\ cls.last.op # "none" =>
          cls.last.value \in { InitValue(cls.last.key), OwnValue(cls.last.ctx) }
    /\ (cls.last.op # "none" /\ cls.last.prev = OwnValue(cls.last.ctx)) =>
          cls.last.value = OwnValue(cls.last.ctx)
    /\ \A x \in Ctxs, k \in ClsKeys :
          cls.seen[x][k] \in { Absent, InitValue(k), OwnValue(x) }
    /\ \A t \in ClsThreads, k \in ClsKeys :
          cls.heap[LOCALMAP(t)][k] \notin { OwnValue(<< "co", c >>) : c \in ClsCos }

StolenCoroutineReadBack ==
    \E c, d \in ClsCos :
        /\ c # d
        /\ cls.last.ctx = << "co", c >>
        /\ cls.last.op = "get"
        /\ cls.last.value = c
        /\ cls.home[c] \in ClsWorkers
        /\ cls.last.thread # cls.home[c]
        /\ cls.seen[<< "co", d >>][cls.last.key] = d

\* C16: for every context and key the initializer has run once if the context
\* has accessed the key and not at all otherwise; it runs on the first access,
\* and a later access returns the value the context left there.
InitializerRunsOnce ==
    /\ \A x \in Ctxs, k \in ClsKeys :
          cls.inits[x][k] = IF cls.seen[x][k] = Absent THEN 0 ELSE 1
    /\ cls.last.op # "none" =>
          /\ cls.last.ran_init <=> cls.last.prev = Absent
          /\ cls.last.prev # Absent => cls.last.value = cls.last.prev

KeyAccessedAgain ==
    /\ cls.last.op = "get"
    /\ ~cls.last.ran_init
    /\ cls.last.value = OwnValue(cls.last.ctx)
    /\ \A k \in ClsKeys : cls.inits[cls.last.ctx][k] = 1

(***************************************************************************)
(* SyncBtreeMap (std/sync/sync_btree_map.rs): a BTreeMap `read` in an      *)
(* UnsafeCell, read without any lock, and a HashMap `dirty` under a mutex. *)
(* insert, remove and clear change `read` while they hold the mutex; the   *)
(* change of `read` takes time, and so does a read of it.  Live            *)
(* coroutines call the operations on one shared map.                       *)
(***************************************************************************)
MaxBtCos == 2
MaxBtKeys == 2
MaxBtVals == 2

BtCos == 1 .. MaxBtCos

BtKeys == 1 .. MaxBtKeys

BtVals == 1 .. MaxBtVals

\* Option<V> of a lookup: a value, or Absent for None
BtOpt == BtVals \cup { Absent }

EmptyBt == [ k \in BtKeys |-> Absent ]

\* the (key, value) pairs an iterator over a map yields
Pairs(m) == { << k, m[k] >> : k \in { j \in BtKeys : m[j] # Absent } }

\* insert, under the lock: dirty takes the value; read takes a copy of it only
\* when dirty had no entry under the key
btree_insert(b, k, v) ==
    [ dirty |-> [ b.dirty EXCEPT ![k] = v ],
      read  |-> IF b.dirty[k] = Absent THEN [ b.read EXCEPT ![k] = v ] ELSE b.read,
      writes |-> b.dirty[k] = Absent ]

\* a remove that takes the key out of dirty and leaves read as it is
btree_remove_dirty_only(b, k) ==
    [ dirty |-> [ b.dirty EXCEPT ![k] = Absent ],
      read  |-> b.read,
      writes |-> FALSE ]

\* remove, under the lock: read loses the key when dirty held it
btree_remove(b, k) ==
    [ dirty |-> [ b.dirty EXCEPT ![k] = Absent ],
      read  |-> IF b.dirty[k] # Absent THEN [ b.read EXCEPT ![k] = Absent ] ELSE b.read,
      writes |-> b.dirty[k] # Absent ]

\* clear, under the lock: both maps lose every key
btree_clear(b) ==
    [ dirty |-> EmptyBt, read |-> EmptyBt, writes |-> TRUE ]

\* get: a lookup in read, no lock
btree_get(b, k) == b.read[k]

\* len: the length of read, no lock
btree_len(b) == Cardinality({ k \in BtKeys : b.read[k] # Absent })

\* is_empty: whether read is empty, no lock
btree_is_empty(b) == \A k \in BtKeys : b.read[k] = Absent

\* from(map): dirty becomes the given map, read takes a copy of each entry
btree_from(m) == [ dirty |-> m, read |-> [ k \in BtKeys |-> m[k] ] ]

\* iter: an iterator over read, no lock
btree_iter(b) == Pairs(b.read)

\* iter_mut: an iterator over dirty, with the guard of the mutex
btree_iter_mut(b) == Pairs(b.dirty)

NoRet ==
    [ op |-> "none", key |-> 0, value |-> Absent, len |-> 0,
      pairs |-> {}, expect |-> Absent, alone |-> FALSE ]

IdleOp == [ name |-> "idle", key |-> 0, torn |-> FALSE, alone |-> FALSE ]

InitBtree ==
    /\ bt = [ read    |-> EmptyBt,
              dirty   |-> EmptyBt,
              live    |-> EmptyBt,
              lock    |-> NoCo,
              writing |-> FALSE,
              pending |-> EmptyBt,
              op      |-> [ c \in BtCos |-> IdleOp ],
              ret     |-> NoRet ]
    /\ WakeOff
    /\ CallOff
    /\ OnceOff
    /\ IoOff
    /\ JoinOff
    /\ HookOff
    /\ ClsOff
    /\ MapOff
    /\ SchedOff
    /\ StealersOff
    /\ TimerOff
    /\ PoisonOff
    /\ StealGlobalOff

notBtree == << wk, call, once, io, jn, hook, cls, sm, sn, tm, ps, sg, schedVars >>

\* the map the coroutines share was built by from(m) instead of new()
from_map(m) ==
    /\ bt.read = EmptyBt /\ bt.dirty = EmptyBt /\ bt.live = EmptyBt
    /\ bt.lock = NoCo
    /\ bt.ret = NoRet
    /\ \A c \in BtCos : bt.op[c] = IdleOp
    /\ m # EmptyBt
    /\ bt' = [ bt EXCEPT !.dirty = btree_from(m).dirty,
                         !.read = btree_from(m).read,
                         !.live = m ]
    /\ UNCHANGED notBtree

BtIdle(c) == bt.op[c].name = "idle"

BtReading(c) == bt.op[c].name \in { "get", "len", "iter" }

BtQuiescent == \A c \in BtCos : BtIdle(c)

\* the operations in flight learn that another one has started, and the reads
\* of `read` in flight that a change of `read` has started
Overlapped(ops, c, writes) ==
    [ d \in BtCos |->
        IF d = c \/ ops[d].name = "idle" THEN ops[d]
        ELSE [ ops[d] EXCEPT !.alone = FALSE,
                             !.torn = @ \/ (writes /\ ops[d].name \in { "get", "len", "iter" }) ] ]

\* self.dirty.lock() and what insert, remove or clear does under it: dirty is
\* changed, the change of read is under way until the guard is dropped
btree_mutate(c, name, res, live) ==
    /\ BtIdle(c)
    /\ bt.lock = NoCo
    /\ bt' = [ bt EXCEPT
                 !.lock = c,
                 !.dirty = res.dirty,
                 !.pending = res.read,
                 !.writing = res.writes,
                 !.live = live,
                 !.op = [ Overlapped(bt.op, c, res.writes) EXCEPT
                            ![c] = [ name |-> name, key |-> 0, torn |-> FALSE,
                                     alone |-> BtQuiescent ] ] ]
    /\ UNCHANGED notBtree

insert_begin(c, k, v) ==
    btree_mutate(c, "insert", btree_insert(bt, k, v), [ bt.live EXCEPT ![k] = v ])

remove_begin(c, k) ==
    btree_mutate(c, "remove", btree_remove(bt, k), [ bt.live EXCEPT ![k] = Absent ])

clear_begin(c) ==
    btree_mutate(c, "clear", btree_clear(bt), EmptyBt)

\* the change of read is complete and the guard is dropped
guard_drop(c) ==
    /\ bt.op[c].name \in { "insert", "remove", "clear" }
    /\ bt.lock = c
    /\ bt' = [ bt EXCEPT !.read = bt.pending, !.writing = FALSE, !.lock = NoCo,
                         !.op[c] = IdleOp ]
    /\ UNCHANGED notBtree

\* get, len or iter starts to read `read`
read_begin(c, name, k) ==
    /\ BtIdle(c)
    /\ bt' = [ bt EXCEPT
                 !.op = [ Overlapped(bt.op, c, FALSE) EXCEPT
                            ![c] = [ name |-> name, key |-> k,
                                     torn |-> bt.writing,
                                     alone |-> BtQuiescent ] ] ]
    /\ UNCHANGED notBtree

\* the read of `read` ends.  When a change of `read` went on during it the two
\* raced, and the result is any value of the result's type.
get_end(c) ==
    /\ bt.op[c].name = "get"
    /\ \E val \in BtOpt :
          /\ ~bt.op[c].torn => val = btree_get(bt, bt.op[c].key)
          /\ bt' = [ bt EXCEPT
                       !.op[c] = IdleOp,
                       !.ret = [ NoRet EXCEPT !.op = "get", !.key = bt.op[c].key,
                                              !.value = val,
                                              !.expect = bt.live[bt.op[c].key],
                                              !.alone = bt.op[c].alone ] ]
    /\ UNCHANGED notBtree

len_end(c) ==
    /\ bt.op[c].name = "len"
    /\ \E n \in 0 .. MaxBtKeys :
          /\ ~bt.op[c].torn => n = btree_len(bt)
          /\ bt' = [ bt EXCEPT !.op[c] = IdleOp,
                               !.ret = [ NoRet EXCEPT !.op = "len", !.len = n ] ]
    /\ UNCHANGED notBtree

iter_end(c) ==
    /\ bt.op[c].name = "iter"
    /\ \E m \in [ BtKeys -> BtOpt ] :
          /\ ~bt.op[c].torn => m = bt.read
          /\ bt' = [ bt EXCEPT !.op[c] = IdleOp,
                               !.ret = [ NoRet EXCEPT !.op = "iter",
                                                      !.pairs = Pairs(m) ] ]
    /\ UNCHANGED notBtree

\* iter_mut: takes the mutex and iterates over dirty; the iterator holds the
\* guard until it is dropped
iter_mut_begin(c) ==
    /\ BtIdle(c)
    /\ bt.lock = NoCo
    /\ bt' = [ bt EXCEPT
                 !.lock = c,
                 !.op = [ Overlapped(bt.op, c, FALSE) EXCEPT
                            ![c] = [ name |-> "iter_mut", key |-> 0, torn |-> FALSE,
                                     alone |-> BtQuiescent ] ] ]
    /\ UNCHANGED notBtree

iter_mut_end(c) ==
    /\ bt.op[c].name = "iter_mut"
    /\ bt' = [ bt EXCEPT
                 !.lock = NoCo,
                 !.op[c] = IdleOp,
                 !.ret = [ NoRet EXCEPT !.op = "iter_mut",
                                        !.pairs = btree_iter_mut(bt) ] ]
    /\ UNCHANGED notBtree

\* get_mut(k) on a key that dirty holds: the mutex is taken and the guard
\* goes into the SyncBtreeMapRefMut, with a reference to the value in dirty.
\* On a key that dirty does not hold, get_mut returns None and nothing changes.
get_mut_begin(c, k) ==
    /\ BtIdle(c)
    /\ bt.lock = NoCo
    /\ bt.dirty[k] # Absent
    /\ bt' = [ bt EXCEPT
                 !.lock = c,
                 !.op = [ Overlapped(bt.op, c, FALSE) EXCEPT
                            ![c] = [ name |-> "get_mut", key |-> k, torn |-> FALSE,
                                     alone |-> BtQuiescent ] ] ]
    /\ UNCHANGED notBtree

\* deref_mut: v is written through the reference, into dirty; then the
\* SyncBtreeMapRefMut is dropped and the mutex released
ref_mut_write(c, v) ==
    /\ bt.op[c].name = "get_mut"
    /\ bt' = [ bt EXCEPT !.dirty[bt.op[c].key] = v,
                         !.live[bt.op[c].key] = v,
                         !.lock = NoCo,
                         !.op[c] = IdleOp ]
    /\ UNCHANGED notBtree

NextBtree ==
    \/ \E m \in [ BtKeys -> BtOpt ] : from_map(m)
    \/ \E c \in BtCos, k \in BtKeys : get_mut_begin(c, k)
    \/ \E c \in BtCos, v \in BtVals : ref_mut_write(c, v)
    \/ \E c \in BtCos, k \in BtKeys, v \in BtVals : insert_begin(c, k, v)
    \/ \E c \in BtCos, k \in BtKeys : remove_begin(c, k)
    \/ \E c \in BtCos : clear_begin(c)
    \/ \E c \in BtCos : guard_drop(c)
    \/ \E c \in BtCos, k \in BtKeys : read_begin(c, "get", k)
    \/ \E c \in BtCos : read_begin(c, "len", 0)
    \/ \E c \in BtCos : read_begin(c, "iter", 0)
    \/ \E c \in BtCos : get_end(c)
    \/ \E c \in BtCos : len_end(c)
    \/ \E c \in BtCos : iter_end(c)
    \/ \E c \in BtCos : iter_mut_begin(c)
    \/ \E c \in BtCos : iter_mut_end(c)

SpecBtree == InitBtree /\ [][NextBtree]_vars

\* C17: get(k) returns the value of the most recent insert(k, v) that no
\* remove(k) or clear followed, also when that insert overwrote an entry, and
\* None when there is none: stated for a get that no other operation overlaps.
GetReturnsLatestInsert ==
    (bt.ret.op = "get" /\ bt.ret.alone) => bt.ret.value = bt.ret.expect

\* C18: with no operation in flight, iter() and iter_mut() yield the same
\* pairs, every live key with its most recently inserted value.
IterAndIterMutAgree ==
    BtQuiescent =>
        /\ btree_iter(bt) = btree_iter_mut(bt)
        /\ btree_iter(bt) = Pairs(bt.live)

\* C19: no read of the read map (get, len, iter) overlaps a change of it by
\* another coroutine (insert, remove, clear).
ReadNeverOverlapsMutation ==
    \A c \in BtCos : BtReading(c) => ~bt.writing

GetMutWriteIsRead ==
    [][ \A c \in BtCos :
          (bt.op[c].name = "get_mut" /\ bt'.op[c].name = "idle") =>
              LET k == bt.op[c].key
                  v == bt'.dirty[k]
              IN  /\ btree_get(bt', k) = v
                  /\ << k, v >> \in btree_iter(bt') ]_vars

MaxSmCos == 2
MaxSmKeys == 2

SmCos == 1 .. MaxSmCos

SmKeys == 1 .. MaxSmKeys

\* the value the coroutines insert under a key
SmValue(k) == k + 1

map_insert_failed(m, k, v) == m

\* m.insert(k, v) on the HashMap
map_insert(m, k, v) == [ m EXCEPT ![k] = v ]

\* r.g.get(k): the entry, or None
map_get(m, k) == m[k]

\* m.len()
map_len(m) == Cardinality({ k \in SmKeys : m[k] # Absent })

\* RwLock: a writer excludes everybody, readers exclude a writer
CanWrite(s) == s.writer = NoCo /\ s.readers = {}

CanRead(s) == s.writer = NoCo

\* what the last get or len returned, and to whom
NoGet ==
    [ co |-> NoCo, op |-> "none", key |-> 0, value |-> Absent, len |-> 0,
      own |-> FALSE, never |-> FALSE ]

InitMap ==
    /\ sm = [ dirty    |-> [ k \in SmKeys |-> Absent ],
              writer   |-> NoCo,
              readers  |-> {},
              inserted |-> [ c \in SmCos |-> {} ],
              got      |-> NoGet ]
    /\ WakeOff
    /\ CallOff
    /\ OnceOff
    /\ IoOff
    /\ JoinOff
    /\ HookOff
    /\ ClsOff
    /\ BtreeOff
    /\ SchedOff
    /\ StealersOff
    /\ TimerOff
    /\ PoisonOff
    /\ StealGlobalOff

notMap == << wk, call, once, io, jn, hook, cls, bt, sn, tm, ps, sg, schedVars >>

SmIdle(c) == sm.writer # c /\ c \notin sm.readers

\* the keys some coroutine has inserted, or is inserting
EverInserted == UNION { sm.inserted[c] : c \in SmCos }

\* insert: takes the write guard and inserts
sm_insert(c, k) ==
    /\ SmIdle(c)
    /\ CanWrite(sm)
    /\ sm' = [ sm EXCEPT !.writer = c,
                         !.dirty = map_insert(sm.dirty, k, SmValue(k)),
                         !.inserted[c] = @ \cup { k } ]
    /\ UNCHANGED notMap

\* insert returns and its write guard is dropped
sm_insert_return(c) ==
    /\ sm.writer = c
    /\ sm' = [ sm EXCEPT !.writer = NoCo ]
    /\ UNCHANGED notMap

\* get: takes the read guard; a hit returns a SyncMapRef that keeps the
\* guard, a miss returns None and drops it
sm_get(c, k) ==
    /\ SmIdle(c)
    /\ CanRead(sm)
    /\ sm' = [ sm EXCEPT
                 !.readers = IF map_get(sm.dirty, k) # Absent THEN @ \cup { c } ELSE @,
                 !.got = [ co |-> c, op |-> "get", key |-> k,
                           value |-> map_get(sm.dirty, k), len |-> 0,
                           own |-> k \in sm.inserted[c],
                           never |-> k \notin EverInserted ] ]
    /\ UNCHANGED notMap

\* the SyncMapRef is dropped, and the read guard with it
sm_ref_drop(c) ==
    /\ c \in sm.readers
    /\ sm' = [ sm EXCEPT !.readers = @ \ { c } ]
    /\ UNCHANGED notMap

\* len: the length of the map, under the read guard
sm_len(c) ==
    /\ SmIdle(c)
    /\ CanRead(sm)
    /\ sm' = [ sm EXCEPT !.got = [ NoGet EXCEPT !.co = c, !.op = "len",
                                                !.len = map_len(sm.dirty),
                                                !.never = EverInserted = {} ] ]
    /\ UNCHANGED notMap

NextMap ==
    \/ \E c \in SmCos, k \in SmKeys : sm_insert(c, k)
    \/ \E c \in SmCos : sm_insert_return(c)
    \/ \E c \in SmCos, k \in SmKeys : sm_get(c, k)
    \/ \E c \in SmCos : sm_ref_drop(c)
    \/ \E c \in SmCos : sm_len(c)

SpecMap == InitMap /\ [][NextMap]_vars

\* C20: with every coroutine inserting (k, v) and nothing removed, a get(k)
\* that a coroutine issues after its own insert of k returns v, a get of a key
\* nobody has inserted returns None, and a map nothing was inserted into has
\* length 0.
GetAfterOwnInsert ==
    /\ (sm.got.op = "get" /\ sm.got.own) => sm.got.value = SmValue(sm.got.key)
    /\ (sm.got.op = "get" /\ sm.got.never) => sm.got.value = Absent
    /\ (sm.got.op = "len" /\ sm.got.never) => sm.got.len = 0
    /\ EverInserted = {} => map_len(sm.dirty) = 0

InsertedThenGot ==
    \E d \in SmCos :
        /\ d # sm.got.co
        /\ sm.got.op = "get"
        /\ sm.got.own
        /\ sm.got.value = SmValue(sm.got.key)
        /\ sm.got.co \in sm.readers
        /\ d \in sm.readers
        /\ sm.got.key \in sm.inserted[d]

(***************************************************************************)
(* Scheduler::new: the stealer list of each worker.  The outer loop runs   *)
(* over the worker ids, the inner loop over local_queues; each list is     *)
(* rotated and pushed onto stealers.                                       *)
(***************************************************************************)
MaxNewWorkers == 6

\* the inner loop's push with the test on the index left out
stealers_l_push_all(l, i, id) == Append(l, i)

\* if i != id { stealers_l.push((i, worker.stealer())); }
stealers_l_push(l, i, id) == IF i # id THEN Append(l, i) ELSE l

InitStealers ==
    /\ \E n \in 1 .. MaxNewWorkers :
          sn = [ workers |-> n, id |-> 0, i |-> 0, stealers_l |-> << >>,
                 stealers |-> << >>, panicked |-> FALSE ]
    /\ WakeOff
    /\ CallOff
    /\ OnceOff
    /\ IoOff
    /\ JoinOff
    /\ HookOff
    /\ ClsOff
    /\ BtreeOff
    /\ MapOff
    /\ SchedOff
    /\ TimerOff
    /\ PoisonOff
    /\ StealGlobalOff

notStealers == << wk, call, once, io, jn, hook, cls, bt, sm, tm, ps, sg, schedVars >>

\* one turn of the inner loop over local_queues.iter().enumerate()
new_enumerate ==
    /\ ~ sn.panicked
    /\ sn.id < sn.workers
    /\ sn.i < sn.workers
    /\ sn' = [ sn EXCEPT
                 !.stealers_l = stealers_l_push(sn.stealers_l, sn.i, sn.id),
                 !.i = sn.i + 1 ]
    /\ UNCHANGED notStealers

\* stealers_l.rotate_left(id), which panics when id is beyond the length of
\* the list; stealers.push(stealers_l); the outer loop goes on
new_rotate ==
    /\ ~ sn.panicked
    /\ sn.id < sn.workers
    /\ sn.i = sn.workers
    /\ IF sn.id <= Len(sn.stealers_l)
       THEN sn' = [ sn EXCEPT
                      !.stealers = Append(sn.stealers,
                                          rotate_left(sn.stealers_l, sn.id)),
                      !.stealers_l = << >>,
                      !.i = 0,
                      !.id = sn.id + 1 ]
       ELSE sn' = [ sn EXCEPT !.panicked = TRUE ]
    /\ UNCHANGED notStealers

NextStealers ==
    \/ new_enumerate
    \/ new_rotate

SpecStealers == InitStealers /\ [][NextStealers]_vars

\* C26: for every worker count N >= 1 and every worker id below N,
\* Scheduler::new builds a stealer list that holds every other worker once
\* and never the worker itself, in the order of the ascending list of the
\* other workers rotated left by id positions; building it never fails.
StealerListIsRotatedOthers ==
    /\ ~ sn.panicked
    /\ \A k \in 1 .. Len(sn.stealers) :
          LET l   == sn.stealers[k]
              id  == k - 1
              n   == sn.workers
              nth(j) == IF j - 1 < id THEN j - 1 ELSE j
          IN  /\ Len(l) = n - 1
              /\ SeqToSet(l) = (0 .. (n - 1)) \ { id }
              /\ \A j \in 1 .. Len(l) :
                    l[j] = nth(((j - 1 + id) % (n - 1)) + 1)

\* every list built for four workers or more: worker 1 starts at worker 2,
\* the last worker's list is rotated by its whole length
AllStealerListsBuilt ==
    /\ sn.workers >= 4
    /\ Len(sn.stealers) = sn.workers
    /\ sn.stealers[2][1] = 2
    /\ sn.stealers[sn.workers][1] = 0
    /\ sn.stealers[1][1] = 1

(***************************************************************************)
(* timer_event_handler one statement at a time: take, set_co_para, the     *)
(* search of sleeps, the push, the wakeup.  The coroutines wait in their   *)
(* wakeup cells on a request with a deadline; the completion of the        *)
(* request races with the timer.  The workers pop, steal where a peer has  *)
(* a task, and run; a worker that finds nothing stays in its loop.  What a *)
(* resumed coroutine makes of its parameter follows the specification.     *)
(***************************************************************************)
MaxTimerCo == 2

TimerCos == 1 .. MaxTimerCo

InitTimer ==
    /\ tm = [ pc     |-> "idle",
              co     |-> NoCo,
              id     |-> NotWorker,
              fired  |-> {},
              taker  |-> [ c \in TimerCos |-> "none" ],
              para   |-> [ c \in TimerCos |-> "none" ],
              result |-> [ c \in TimerCos |-> "none" ],
              join   |-> [ c \in TimerCos |-> "none" ] ]
    /\ \E flags \in [ Workers -> BOOLEAN ] : Registered(flags)
    /\ pc = [ w \in Workers |-> "pick" ]
    /\ cur = [ w \in Workers |-> NoCo ]
    /\ fate = [ c \in Cos |-> IF c \in TimerCos THEN "ran" ELSE "unborn" ]
    /\ cells = TimerCos
    /\ global_queue = << >>
    /\ local_queues = [ w \in Workers |-> << >> ]
    /\ deficit = [ w \in Workers |-> 0 ]
    /\ parked = {}
    /\ wakeups = [ w \in Workers |-> FALSE ]
    /\ lock = 0
    /\ prod = [ pc |-> "idle", first_thread |-> 0 ]
    /\ tpush = NoPush
    /\ WakeOff
    /\ CallOff
    /\ OnceOff
    /\ IoOff
    /\ JoinOff
    /\ HookOff
    /\ ClsOff
    /\ BtreeOff
    /\ MapOff
    /\ StealersOff
    /\ PoisonOff
    /\ StealGlobalOff

notTimer == << wk, call, once, io, jn, hook, cls, bt, sm, sn, ps, sg >>

\* the timer of c expires: if let Some(mut c) = co.take()
tm_take(c) ==
    /\ tm.pc = "idle"
    /\ c \notin tm.fired
    /\ LET r == take(cells, c)
       IN  /\ cells' = r.cells
           /\ tm' = [ tm EXCEPT !.fired = @ \cup { c },
                                !.co = IF r.got THEN c ELSE NoCo,
                                !.pc = IF r.got THEN "para" ELSE "idle",
                                !.taker[c] = IF r.got THEN "timer" ELSE @ ]
    /\ UNCHANGED << notTimer, global_queue, local_queues, deficit, parked,
                    wakeups, pc, cur, lock, sleeps, worker_ids, prod, tpush,
                    fate >>

\* a handler that goes on to the push without writing the parameter
tm_para_skipped ==
    /\ tm.pc = "para"
    /\ tm' = [ tm EXCEPT !.pc = "find" ]
    /\ UNCHANGED << notTimer, schedVars >>

\* set_co_para(&mut c, io::Error::new(io::ErrorKind::TimedOut, "timeout"))
tm_set_co_para ==
    /\ tm.pc = "para"
    /\ tm' = [ tm EXCEPT !.para[tm.co] = "TimedOut", !.pc = "find" ]
    /\ UNCHANGED << notTimer, schedVars >>

\* for (t, b) in s.sleeps.iter(): the first entry with its flag set and a
\* worker id; the push onto that worker's deque begins by reading back.
\* When there is none the closure ends and the coroutine is dropped.
tm_find ==
    /\ tm.pc = "find"
    /\ IF TimerTargets = {}
       THEN /\ fate' = [ fate EXCEPT ![tm.co] = "dropped" ]
            /\ tm' = [ tm EXCEPT !.pc = "idle", !.co = NoCo ]
            /\ tpush' = tpush
       ELSE /\ \E t \in TimerTargets :
                 /\ tpush' = [ w   |-> worker_ids[t],
                               co  |-> tm.co,
                               rel |-> Len(local_queues[worker_ids[t]])
                                         - deficit[worker_ids[t]] ]
                 /\ tm' = [ tm EXCEPT !.pc = "push", !.id = worker_ids[t] ]
            /\ fate' = fate
    /\ UNCHANGED << notTimer, global_queue, local_queues, deficit, parked,
                    wakeups, pc, cur, lock, cells, sleeps, worker_ids, prod >>

\* s.local_queues[*id].push(c)
tm_push(x) ==
    /\ tm.pc = "push"
    /\ timer_push_store(x)
    /\ tm' = [ tm EXCEPT !.pc = "wakeup" ]
    /\ UNCHANGED << notTimer, global_queue, parked, wakeups, pc, cur, lock,
                    cells, sleeps, worker_ids, prod >>

\* s.get_selector().wakeup(*id); break
tm_wakeup ==
    /\ tm.pc = "wakeup"
    /\ wakeups' = [ wakeups EXCEPT ![tm.id] = TRUE ]
    /\ tm' = [ tm EXCEPT !.pc = "idle", !.co = NoCo, !.id = NotWorker ]
    /\ UNCHANGED << notTimer, global_queue, local_queues, deficit, parked, pc,
                    cur, lock, cells, sleeps, worker_ids, prod, tpush, fate >>

\* the event loop of the coroutine's worker gets the completion of its
\* request while the coroutine is in its cell
tm_completion(c) ==
    /\ c \in cells
    /\ pc[IoHome(c)] = "pick"
    /\ TakeAndSchedule(Tid(IoHome(c)), c)
    /\ tm' = [ tm EXCEPT !.taker[c] = "io" ]
    /\ UNCHANGED << notTimer, pc, cur, lock, sleeps, worker_ids, prod, tpush >>

\* run_coroutine: the coroutine resumes inside the operation it blocked in,
\* which takes the parameter and returns it as its error, or returns Ok; the
\* coroutine then runs to its end and its own value goes to the join slot
tm_resume(w) ==
    /\ pc[w] = "run"
    /\ cur[w] \in TimerCos
    /\ tm' = [ tm EXCEPT
                 !.result[cur[w]] =
                     IF tm.para[cur[w]] = "none" THEN "Ok" ELSE tm.para[cur[w]],
                 !.para[cur[w]] = "none",
                 !.join[cur[w]] = "return" ]
    /\ fate' = [ fate EXCEPT ![cur[w]] = "done" ]
    /\ cur' = [ cur EXCEPT ![w] = NoCo ]
    /\ pc' = [ pc EXCEPT ![w] = "pick" ]
    /\ UNCHANGED << notTimer, global_queue, local_queues, deficit, parked,
                    wakeups, lock, cells, sleeps, worker_ids, prod, tpush >>

NextTimer ==
    \/ \E c \in TimerCos : tm_take(c)
    \/ tm_set_co_para
    \/ tm_find
    \/ \E c \in TimerCos : tm_push(c)
    \/ tm_wakeup
    \/ \E c \in TimerCos : tm_completion(c)
    \/ \E w \in Workers : tm_resume(w)
    \/ \E w \in Workers : local_pop(w)
    \/ \E w \in Workers : Victim(w, parked) # NotWorker /\ steal_peers(w)

SpecTimer == InitTimer /\ [][NextTimer]_vars

\* C28: when a timer fire takes a coroutine, TimedOut is in the coroutine's
\* suspension parameter before the coroutine is visible in any run queue, and
\* the selector of the destination worker is signalled only after the push;
\* the timeout comes back as the error of the operation that carried the
\* deadline, and join gets the coroutine's own value.
TimedOutBeforeVisible ==
    /\ [](\A c \in TimerCos :
            /\ ( /\ tm.taker[c] = "timer"
                 /\ \/ Count(global_queue, c) + LocalCount(c, NumWorkers) > 0
                    \/ \E w \in Workers : cur[w] = c )
                  => tm.para[c] = "TimedOut"
            /\ tm.result[c] # "none" =>
                  /\ (tm.result[c] = "TimedOut") = (tm.taker[c] = "timer")
                  /\ tm.join[c] = "return")
    /\ [][ \A w \in Workers :
             (~ wakeups[w] /\ wakeups'[w]) =>
                 /\ tm.pc = "wakeup"
                 /\ tm.id = w
                 /\ tpush = NoPush ]_vars

\* one coroutine was resumed by its timer and got TimedOut from its
\* operation, the other by the completion of its request
TimedOutAndCompleted ==
    \E c, d \in TimerCos :
        /\ tm.result[c] = "TimedOut"
        /\ tm.result[d] = "Ok"
        /\ tm.pc = "idle"
        /\ \E w \in Workers : wakeups[w]

(***************************************************************************)
(* The maps under a poisoned lock.  SyncMap keeps its HashMap in an        *)
(* RwLock, SyncBtreeMap its dirty map in a Mutex; both locks are the       *)
(* crate's own.  A holder of a write guard that panics poisons the lock,   *)
(* and from then on every lock(), read() and write() hands its caller an   *)
(* Err.  Each operation is followed from its call to its return: what it   *)
(* does with Ok and what it does with Err.                                 *)
(***************************************************************************)
MaxPsCos == 2

MaxPsKeys == 2

MaxLockTries == 2

PsCos == 1 .. MaxPsCos

PsKeys == 1 .. MaxPsKeys

PsKinds == { "SyncMap", "SyncBtreeMap" }

\* the operations that take the lock: SyncBtreeMap's len, is_empty, get and
\* iter read the read map and never touch the Mutex
PsOps(kind) ==
    IF kind = "SyncMap"
    THEN { "insert", "remove", "len", "is_empty", "clear", "get", "get_mut" }
    ELSE { "insert", "remove", "clear", "get_mut", "iter_mut" }

\* SyncMap takes read() for len, is_empty and get and write() for the rest;
\* the Mutex of SyncBtreeMap has one kind of guard
PsShared(kind, name) == kind = "SyncMap" /\ name \in { "len", "is_empty", "get" }

\* the Err(_) arm of each SyncMap operation
sync_map_err(name) ==
    CASE name = "insert"               -> "given"
      [] name = "remove"               -> "None"
      [] name \in { "len", "is_empty" } -> "continue"
      [] name = "clear"                -> "unit"
      [] OTHER                         -> "None"

\* the Err(_) arm of each SyncBtreeMap operation
sync_btree_map_err(name) ==
    CASE name = "insert"   -> "given"
      [] name = "remove"   -> "None"
      [] name = "clear"    -> "unit"
      [] name = "iter_mut" -> "continue"
      [] OTHER             -> "None"

\* what lock(), read() and write() hand to the caller
lock_result == IF ps.poisoned THEN "Err" ELSE "Ok"

PsIdle == [ at |-> "idle", name |-> "none", key |-> 0, tries |-> 0 ]

NoPsReturn ==
    [ co |-> NoCo, name |-> "none", err |-> FALSE, ret |-> "none",
      before |-> {}, after |-> {} ]

InitPoison ==
    /\ \E kind \in PsKinds, m \in SUBSET PsKeys :
          ps = [ kind     |-> kind,
                 map      |-> m,
                 poisoned |-> FALSE,
                 holder   |-> NoCo,
                 readers  |-> {},
                 op       |-> [ c \in PsCos |-> PsIdle ],
                 last     |-> NoPsReturn ]
    /\ WakeOff
    /\ CallOff
    /\ OnceOff
    /\ IoOff
    /\ JoinOff
    /\ HookOff
    /\ ClsOff
    /\ BtreeOff
    /\ MapOff
    /\ SchedOff
    /\ StealersOff
    /\ TimerOff
    /\ StealGlobalOff

notPoison ==
    << wk, call, once, io, jn, hook, cls, bt, sm, sn, tm, sg, schedVars >>

\* a coroutine calls an operation of the map
ps_call(c, name, k) ==
    /\ ps.op[c].at = "idle"
    /\ name \in PsOps(ps.kind)
    /\ ps' = [ ps EXCEPT !.op[c] = [ at |-> "lock", name |-> name, key |-> k,
                                     tries |-> 0 ] ]
    /\ UNCHANGED notPoison

\* the map after the Ok arm of the operation
PsApplied(name, k) ==
    CASE name = "insert" -> ps.map \cup { k }
      [] name = "remove" -> ps.map \ { k }
      [] name = "clear"  -> {}
      [] OTHER           -> ps.map

\* what the Ok arm returns; "guard" is a value that keeps the lock held
PsOkRet(name, k) ==
    CASE name \in { "insert", "remove" } -> IF k \in ps.map THEN "old" ELSE "None"
      [] name \in { "get", "get_mut" }   -> IF k \in ps.map THEN "guard" ELSE "None"
      [] name = "iter_mut"               -> "guard"
      [] name = "clear"                  -> "unit"
      [] OTHER                           -> "value"

\* the call gets its answer from the lock and takes the Ok or the Err arm;
\* the guard inside an Err is dropped with it
ps_observe(c) ==
    LET o == ps.op[c]
        shared == PsShared(ps.kind, o.name)
        arm == IF lock_result = "Ok" THEN PsOkRet(o.name, o.key)
               ELSE IF ps.kind = "SyncMap" THEN sync_map_err(o.name)
               ELSE sync_btree_map_err(o.name)
        after == IF lock_result = "Ok" THEN PsApplied(o.name, o.key) ELSE ps.map
    IN  /\ o.at = "lock"
        /\ o.tries < MaxLockTries
        /\ ps.holder = NoCo
        /\ shared \/ ps.readers = {}
        /\ ps' = [ ps EXCEPT
                     !.map = after,
                     !.holder = IF arm = "guard" /\ ~shared THEN c ELSE @,
                     !.readers = IF arm = "guard" /\ shared THEN @ \cup { c } ELSE @,
                     !.op[c] = CASE arm = "continue" -> [ o EXCEPT !.tries = @ + 1 ]
                                 [] arm = "guard"    -> [ o EXCEPT !.at = "guard",
                                                                   !.tries = @ + 1 ]
                                 [] OTHER            -> PsIdle,
                     !.last = IF arm \in { "continue", "guard" } THEN @
                              ELSE [ co |-> c, name |-> o.name,
                                     err |-> lock_result = "Err", ret |-> arm,
                                     before |-> ps.map, after |-> after ] ]
        /\ UNCHANGED notPoison

\* the holder of a returned guard drops it
ps_drop(c) ==
    /\ ps.op[c].at = "guard"
    /\ ps' = [ ps EXCEPT !.holder = IF @ = c THEN NoCo ELSE @,
                         !.readers = @ \ { c },
                         !.op[c] = PsIdle ]
    /\ UNCHANGED notPoison

\* the holder of a returned guard panics: unwinding drops the guard, and a
\* write guard dropped by a panicking holder poisons the lock
ps_panic(c) ==
    /\ ps.op[c].at = "guard"
    /\ ps' = [ ps EXCEPT !.poisoned = @ \/ ps.holder = c,
                         !.holder = IF @ = c THEN NoCo ELSE @,
                         !.readers = @ \ { c },
                         !.op[c] = PsIdle ]
    /\ UNCHANGED notPoison

NextPoison ==
    \/ \E c \in PsCos, name \in PsOps("SyncMap") \cup PsOps("SyncBtreeMap"),
          k \in PsKeys : ps_call(c, name, k)
    \/ \E c \in PsCos : ps_observe(c)
    \/ \E c \in PsCos : ps_drop(c)
    \/ \E c \in PsCos : ps_panic(c)

SpecPoison == InitPoison /\ [][NextPoison]_vars

\* C33: every operation of SyncMap and SyncBtreeMap returns at its first
\* answer from the lock, poisoned or not: no call is answered a second time
\* by the lock it asked, and on a poisoned lock insert hands back the value
\* it was given and remove hands back None, the map as it was.
ReturnsAtFirstLockAnswer ==
    /\ \A c \in PsCos : ps.op[c].at = "lock" => ps.op[c].tries = 0
    /\ (ps.last.err /\ ps.last.name = "insert") =>
           ps.last.ret = "given" /\ ps.last.after = ps.last.before
    /\ (ps.last.err /\ ps.last.name = "remove") =>
           ps.last.ret = "None" /\ ps.last.after = ps.last.before

(***************************************************************************)
(* steal_global on its own.  Worker threads whose own deque is empty call  *)
(* it from run_queued_tasks when they saw the injector not empty; other    *)
(* threads push onto the injector.  Each call is followed step by step:    *)
(* the compare_exchange on GLOBABLE_LOCK, every turn of the loop around    *)
(* steal_batch_and_pop with its Success, Empty or Retry, the store of 0,   *)
(* the return.                                                             *)
(***************************************************************************)
MaxSgThreads == 2

MaxInjector == 2

MaxSnooze == 2

SgThreads == 1 .. MaxSgThreads

SgOutcomes == { "Success", "Empty", "Retry" }

SgOut ==
    [ at |-> "out", acquired |-> FALSE, ret |-> "none", step |-> 0, local |-> 0 ]

InitStealGlobal ==
    /\ sg = [ lock     |-> 0,
              injector |-> 0,
              th       |-> [ t \in SgThreads |-> SgOut ] ]
    /\ WakeOff
    /\ CallOff
    /\ OnceOff
    /\ IoOff
    /\ JoinOff
    /\ HookOff
    /\ ClsOff
    /\ BtreeOff
    /\ MapOff
    /\ SchedOff
    /\ StealersOff
    /\ TimerOff
    /\ PoisonOff

notStealGlobal ==
    << wk, call, once, io, jn, hook, cls, bt, sm, sn, tm, ps, schedVars >>

\* self.global_queue.push(co), the injector's side of schedule_global
sg_push ==
    /\ sg.injector < MaxInjector
    /\ sg' = [ sg EXCEPT !.injector = @ + 1 ]
    /\ UNCHANGED notStealGlobal

\* local.pop() returned a task of an earlier batch: the worker runs it
sg_pop(t) ==
    /\ sg.th[t].at = "out"
    /\ sg.th[t].local > 0
    /\ sg' = [ sg EXCEPT !.th[t].local = @ - 1 ]
    /\ UNCHANGED notStealGlobal

\* the own deque is empty and self.global_queue.is_empty() was false:
\* steal_global(&self.global_queue, local)
sg_call(t) ==
    /\ sg.th[t].at = "out"
    /\ sg.th[t].local = 0
    /\ sg.injector > 0
    /\ sg' = [ sg EXCEPT !.th[t] = [ SgOut EXCEPT !.at = "cas" ] ]
    /\ UNCHANGED notStealGlobal

\* GLOBABLE_LOCK.compare_exchange(0, 1): return None when it fails, else
\* let backoff = Backoff::new()
sg_compare_exchange(t) ==
    /\ sg.th[t].at = "cas"
    /\ sg' = IF sg.lock = 0
             THEN [ sg EXCEPT !.lock = 1,
                              !.th[t].at = "loop",
                              !.th[t].acquired = TRUE ]
             ELSE [ sg EXCEPT !.th[t].at = "out", !.th[t].ret = "None" ]
    /\ UNCHANGED notStealGlobal

\* the store of 0 left out when the loop broke with None
sg_store_on_success(t) ==
    /\ sg.th[t].at = "store"
    /\ sg' = [ sg EXCEPT !.lock = IF sg.th[t].ret = "Some" THEN 0 ELSE @,
                         !.th[t].at = "out" ]
    /\ UNCHANGED notStealGlobal

\* GLOBABLE_LOCK.store(0, Ordering::Relaxed); ret
sg_store(t) ==
    /\ sg.th[t].at = "store"
    /\ sg' = [ sg EXCEPT !.lock = 0, !.th[t].at = "out" ]
    /\ UNCHANGED notStealGlobal

\* one turn of the loop: global.steal_batch_and_pop(local) gives Success(t)
\* (one task returned, k more moved to the own deque) => break Some(t),
\* Empty => break None, Retry => backoff.snooze() and another turn
sg_steal_batch_and_pop(t, outcome) ==
    /\ sg.th[t].at = "loop"
    /\ CASE outcome = "Success" ->
              /\ sg.injector > 0
              /\ \E k \in 0 .. (sg.injector - 1) :
                    sg' = [ sg EXCEPT !.injector = @ - (k + 1),
                                      !.th[t].local = k,
                                      !.th[t].ret = "Some",
                                      !.th[t].at = "store" ]
         [] outcome = "Empty" ->
              /\ sg.injector = 0
              /\ sg' = [ sg EXCEPT !.th[t].ret = "None", !.th[t].at = "store" ]
         [] OTHER ->
              /\ sg.th[t].step < MaxSnooze
              /\ sg' = [ sg EXCEPT !.th[t].step = @ + 1 ]
    /\ UNCHANGED notStealGlobal

NextStealGlobal ==
    \/ sg_push
    \/ \E t \in SgThreads : sg_pop(t)
    \/ \E t \in SgThreads : sg_call(t)
    \/ \E t \in SgThreads : sg_compare_exchange(t)
    \/ \E t \in SgThreads, outcome \in SgOutcomes : sg_steal_batch_and_pop(t, outcome)
    \/ \E t \in SgThreads : sg_store(t)

SpecStealGlobal == InitStealGlobal /\ [][NextStealGlobal]_vars

\* C34: the global steal lock is released on every path: whenever no thread
\* is past the compare_exchange of steal_global the lock word is 0, and a
\* thread that acquired the lock leaves steal_global only through the store
\* of 0, with Some after a Success and None after an Empty, however many
\* Retry results came first.
LockReleasedOnEveryPath ==
    /\ []((\A t \in SgThreads : sg.th[t].at \in { "out", "cas" }) => sg.lock = 0)
    /\ [][ \A t \in SgThreads :
              (sg.th[t].acquired /\ sg.th[t].at # "out" /\ sg'.th[t].at = "out") =>
                  /\ sg.th[t].at = "store"
                  /\ sg'.lock = 0
                  /\ sg'.th[t].ret \in { "Some", "None" } ]_vars

\* both threads are back from a call in which they held the lock and got
\* Retry before the loop broke, one with a task and one with None, and the
\* lock word is 0
BothReturnedAfterRetry ==
    /\ sg.lock = 0
    /\ \E t, u \in SgThreads :
          /\ sg.th[t].at = "out" /\ sg.th[t].acquired
          /\ sg.th[t].step >= 1 /\ sg.th[t].ret = "Some"
          /\ sg.th[u].at = "out" /\ sg.th[u].acquired
          /\ sg.th[u].step = MaxSnooze /\ sg.th[u].ret = "None"

(***************************************************************************)
(* wake_one as a function of the worker count and the bitmap               *)
(***************************************************************************)
MaxParkWorkers == 4
MaxParkBit == 4
MaxWakeCalls == 2

ParkWorkerCounts == (1 .. MaxParkWorkers) \cup { U64Bits }

ParkBitDomain == (0 .. MaxParkBit) \cup { U64Bits - 1 }

InitWake ==
    /\ \E n \in ParkWorkerCounts, b \in SUBSET ParkBitDomain :
          wk = [ workers |-> n, before |-> b, parked |-> b,
                 sent |-> NoWake, calls |-> 0 ]
    /\ CallOff
    /\ OnceOff
    /\ IoOff
    /\ LibOff
    /\ SchedOff

WakeCall ==
    /\ wk.calls < MaxWakeCalls
    /\ LET r == wake_one(wk.parked, wk.workers)
       IN  wk' = [ wk EXCEPT !.before = wk.parked, !.parked = r.parked,
                             !.sent = r.sent, !.calls = wk.calls + 1 ]
    /\ UNCHANGED << libVars, call, once, io, schedVars >>

NextWake == WakeCall

SpecWake == InitWake /\ [][NextWake]_vars

\* C6: when wake_one runs on a bitmap whose right-most set bit is bit i and
\* i < workers, bit i is cleared afterwards and every other bit is unchanged.
WakeOneClearsExactlyBitI ==
    (wk.calls > 0 /\ wk.before # {} /\ Min(wk.before) < wk.workers)
        => wk.parked = wk.before \ { Min(wk.before) }

\* C7: on the zero bitmap wake_one sends no wakeup and leaves the bitmap
\* unchanged; a call sends at most one wakeup, and only to the worker of the
\* lowest set bit when that index is below the worker count.
WakeOneSignalsOnlyParked ==
    wk.calls > 0 =>
        /\ Len(wk.sent) <= 1
        /\ wk.before = {} => (wk.sent = NoWake /\ wk.parked = wk.before)
        /\ wk.sent # NoWake =>
              /\ wk.before # {}
              /\ Min(wk.before) < wk.workers
              /\ wk.sent = << Min(wk.before) >>

\* the zero bitmap with the largest worker count: trailing_zeros is 64
WakeOneOnZeroBitmap ==
    wk.calls > 0 /\ wk.before = {} /\ wk.workers = U64Bits /\ wk.sent = NoWake

\* C21: when wake_one runs on a bitmap whose right-most set bit is bit i and
\* i < workers, it signals the selector of worker i and of no other worker.
WakeOneSignalsLowestParked ==
    (wk.calls > 0 /\ wk.before # {} /\ Min(wk.before) < wk.workers)
        => wk.sent = << Min(wk.before) >>

\* several workers parked, the lowest of them not worker 0: it alone is
\* signalled
WakeOneAmongSeveralParked ==
    /\ wk.calls > 0
    /\ Cardinality(wk.before) >= 2
    /\ Min(wk.before) > 0
    /\ Min(wk.before) < wk.workers
    /\ \E b \in wk.before : b # Min(wk.before) /\ b < wk.workers
    /\ wk.sent = << Min(wk.before) >>
====
